---------------------------- MODULE Spec2Model ----------------------------
(***************************************************************************)
(* A model of the stats_fs source tree (fs/stats_fs/stats_fs.c): sources,  *)
(* value bindings, the subordinate tree, reference counts, the aggregator, *)
(* clear and revoke, and the value-file open/release path.                 *)
(*                                                                         *)
(* Memory is modelled by bytes: a backing object is a sequence of bytes    *)
(* and a 64-bit word is a little-endian sequence of 8 bytes, so that the   *)
(* width and the signedness of every primitive read are explicit and the   *)
(* arithmetic of the aggregator is arithmetic modulo 2^64.                 *)
(*                                                                         *)
(* Allocations (kzalloc, kstrdup) are taken to succeed.                    *)
(*                                                                         *)
(* The second part models metricfs (kernel/metricfs.c): escape_string, the *)
(* emitter and its rows, and the open, release and unregister paths of a   *)
(* metric's files with the metric and module reference counts.             *)
(***************************************************************************)
EXTENDS Integers, Sequences, FiniteSets, TLC

(***************************************************************************)
(* Bounds of the model.                                                    *)
(***************************************************************************)
\* number of struct stats_fs_source objects that can exist at once
NSrc == 3
\* number of backing objects (struct container) the producers own
NBase == 2
\* most bindings on one source
MaxBindings == 2
\* most references held by creators and explicit stats_fs_source_get calls
MaxHeld == 2
\* most value files of one source open at once
MaxOpen == 1
\* most labels on one source
MaxLabels == 3
\* number of sources in the runs about reference counts and bindings
NRef == 2
\* most bindings in the whole tree in the runs about the aggregator
MaxAggBindings == 3

Sources == 1..NSrc
Bases == 1..NBase

(***************************************************************************)
(* Program constants.                                                      *)
(***************************************************************************)
NULL == 0
STATS_FS_SIGN == 32768
STATS_FS_U8 == 0
STATS_FS_U16 == 1
STATS_FS_U32 == 2
STATS_FS_U64 == 3
STATS_FS_BOOL == 4
STATS_FS_S8 == STATS_FS_U8 + STATS_FS_SIGN
STATS_FS_S16 == STATS_FS_U16 + STATS_FS_SIGN
STATS_FS_S32 == STATS_FS_U32 + STATS_FS_SIGN
STATS_FS_S64 == STATS_FS_U64 + STATS_FS_SIGN
STATS_FS_NONE == 0
STATS_FS_SUM == 1
STATS_FS_MIN == 2
STATS_FS_MAX == 3
STATS_FS_COUNT_ZERO == 4
STATS_FS_AVG == 5
ENOENT == 2
EEXIST == 17
ENOMEM == 12
EACCES == 13
EINVAL == 22

(***************************************************************************)
(* 64-bit words as 8 little-endian bytes.                                  *)
(***************************************************************************)
Byte == 0..255
WordIdx == 1..8

\* the word of a small natural number (n < 2^31)
W(n) == [i \in WordIdx |->
           CASE i = 1 -> n % 256
             [] i = 2 -> (n \div 256) % 256
             [] i = 3 -> (n \div 65536) % 256
             [] i = 4 -> (n \div 16777216) % 256
             [] OTHER -> 0]

Zero64 == W(0)
U64_MAX == [i \in WordIdx |-> 255]
S64_MAX == [i \in WordIdx |-> IF i = 8 THEN 127 ELSE 255]
S64_MIN == [i \in WordIdx |-> IF i = 8 THEN 128 ELSE 0]

\* carry into byte i of a + b
RECURSIVE Carry(_, _, _)
Carry(a, b, i) ==
    IF i = 1 THEN 0 ELSE (a[i - 1] + b[i - 1] + Carry(a, b, i - 1)) \div 256

\* a + b modulo 2^64
Add64(a, b) == [i \in WordIdx |-> (a[i] + b[i] + Carry(a, b, i)) % 256]

Not64(a) == [i \in WordIdx |-> 255 - a[i]]
Neg64(a) == Add64(Not64(a), W(1))
IsNeg64(a) == a[8] >= 128

\* a <= b as unsigned 64-bit integers, comparing from byte i downwards
RECURSIVE ULeFrom(_, _, _)
ULeFrom(a, b, i) ==
    IF i = 0 THEN TRUE
    ELSE IF a[i] # b[i] THEN a[i] < b[i]
    ELSE ULeFrom(a, b, i - 1)

ULe64(a, b) == ULeFrom(a, b, 8)
Flip(a) == [a EXCEPT ![8] = (a[8] + 128) % 256]
\* a <= b as signed 64-bit integers
SLe64(a, b) == ULe64(Flip(a), Flip(b))

\* remainder carried into byte i of the long division of a by c
RECURSIVE RemInto(_, _, _)
RemInto(a, c, i) ==
    IF i = 8 THEN 0 ELSE (RemInto(a, c, i + 1) * 256 + a[i + 1]) % c

\* a / c for unsigned a and a small divisor c > 0
UDiv64(a, c) == [i \in WordIdx |-> (RemInto(a, c, i) * 256 + a[i]) \div c]

\* (int64_t)a / c, truncating toward zero
SDiv64(a, c) == IF IsNeg64(a) THEN Neg64(UDiv64(Neg64(a), c)) ELSE UDiv64(a, c)

(***************************************************************************)
(* Value descriptors (struct stats_fs_value) and the value arrays the      *)
(* producers pass to stats_fs_source_add_values.  A descriptor pointer is  *)
(* the pair of its array and its index in it; an array pointer is the name *)
(* of the array, so pointer identity is equality of these.                 *)
(***************************************************************************)
\* a descriptor whose initializer leaves the mode out, so that it is 0
Val(n, o, t, k) == [name |-> n, offset |-> o, type |-> t, aggr_kind |-> k, mode |-> 0]
\* a descriptor with a file mode
ValMode(n, o, t, k, m) == [Val(n, o, t, k) EXCEPT !.mode = m]

test_values ==
    << Val("u64", 0, STATS_FS_U64, STATS_FS_NONE),
       Val("s32", 8, STATS_FS_S32, STATS_FS_NONE),
       Val("bo", 12, STATS_FS_BOOL, STATS_FS_NONE),
       Val("u8", 13, STATS_FS_U8, STATS_FS_NONE),
       Val("s16", 14, STATS_FS_S16, STATS_FS_NONE) >>

test_all_aggr ==
    << Val("s32", 8, STATS_FS_S32, STATS_FS_MIN),
       Val("bo", 12, STATS_FS_BOOL, STATS_FS_COUNT_ZERO),
       Val("u64", 0, STATS_FS_U64, STATS_FS_SUM),
       Val("u8", 13, STATS_FS_U8, STATS_FS_AVG),
       Val("s16", 14, STATS_FS_S16, STATS_FS_MAX) >>

test_same_name ==
    << Val("s32", 8, STATS_FS_S32, STATS_FS_NONE),
       Val("s32", 8, STATS_FS_S32, STATS_FS_MIN) >>

\* simple values of the four primitive types the arrays above do not use
test_widths ==
    << Val("s8", 13, STATS_FS_S8, STATS_FS_NONE),
       Val("u16", 14, STATS_FS_U16, STATS_FS_NONE),
       Val("u32", 8, STATS_FS_U32, STATS_FS_NONE),
       Val("s64", 0, STATS_FS_S64, STATS_FS_NONE) >>

\* MIN and MAX aggregates of unsigned and of signed fields
test_extremes ==
    << Val("u64", 0, STATS_FS_U64, STATS_FS_MIN),
       Val("u64", 0, STATS_FS_U64, STATS_FS_MAX),
       Val("s8", 13, STATS_FS_S8, STATS_FS_MIN),
       Val("s8", 13, STATS_FS_S8, STATS_FS_MAX),
       Val("s32", 8, STATS_FS_S32, STATS_FS_MAX) >>

\* AVG aggregates of signed and of unsigned fields
test_avg ==
    << Val("s16", 14, STATS_FS_S16, STATS_FS_AVG),
       Val("s32", 8, STATS_FS_S32, STATS_FS_AVG),
       Val("u8", 13, STATS_FS_U8, STATS_FS_AVG),
       Val("u64", 0, STATS_FS_U64, STATS_FS_AVG) >>

\* simple values and a SUM with the file modes 0 (unset), 0444, 0200 and 0555
test_modes ==
    << ValMode("u64", 0, STATS_FS_U64, STATS_FS_NONE, 0),
       ValMode("s32", 8, STATS_FS_S32, STATS_FS_NONE, 292),
       ValMode("u8", 13, STATS_FS_U8, STATS_FS_NONE, 128),
       ValMode("s16", 14, STATS_FS_S16, STATS_FS_NONE, 365),
       ValMode("u64", 0, STATS_FS_U64, STATS_FS_SUM, 0) >>

ValueArrays ==
    [a \in {"test_values", "test_all_aggr", "test_same_name", "test_widths",
            "test_extremes", "test_avg", "test_modes"} |->
        CASE a = "test_values" -> test_values
          [] a = "test_all_aggr" -> test_all_aggr
          [] a = "test_same_name" -> test_same_name
          [] a = "test_widths" -> test_widths
          [] a = "test_extremes" -> test_extremes
          [] a = "test_avg" -> test_avg
          [] a = "test_modes" -> test_modes]

ArrIds == DOMAIN ValueArrays
\* every descriptor pointer
ValPtrs == {[arr |-> a, idx |-> i] : a \in ArrIds, i \in 1..5} \cap
           UNION {{[arr |-> a, idx |-> i] : i \in 1..Len(ValueArrays[a])} : a \in ArrIds}
Deref(v) == ValueArrays[v.arr][v.idx]
Names == {"u64", "s32", "bo", "u8", "s16", "s8", "u16", "u32", "s64", "does not exist"}

(***************************************************************************)
(* Backing objects: struct container, 16 bytes                             *)
(*   u64 at 0, s32 at 8, bo at 12, u8 at 13, s16 at 14.                    *)
(***************************************************************************)
\* { 64, S32_MIN, true, 127, 10000 }
cont == << 64, 0, 0, 0, 0, 0, 0, 0,   0, 0, 0, 128,   1,   127,   16, 39 >>
\* { 64, S16_MAX, false, 255, -20000 }
cont2 == << 64, 0, 0, 0, 0, 0, 0, 0,   255, 127, 0, 0,   0,   255,   224, 177 >>
\* every byte 0xff: the largest unsigned and the value -1 of each signed field
cont_ones == [i \in 1..16 |-> 255]
\* { U64_MAX, S32_MIN, true, 127, 10000 }: cont with the largest u64
cont_wrap == [i \in 1..16 |-> IF i <= 8 THEN 255 ELSE cont[i]]
\* { U64_MAX, S32_MIN, true, 127, -3 }
cont_m3 == [i \in 1..16 |-> IF i = 15 THEN 253 ELSE IF i = 16 THEN 255 ELSE cont_wrap[i]]
\* { 64, S16_MAX, false, 255, 0 }
cont2_z == [i \in 1..16 |-> IF i >= 15 THEN 0 ELSE cont2[i]]

is_val_signed(val) == (val.type \div STATS_FS_SIGN) % 2 = 1

\* the w bytes at address, zero-extended to a word
LoadU(obj, address, w) == [i \in WordIdx |-> IF i <= w THEN obj[address + i] ELSE 0]
\* the w bytes at address, sign-extended to a word
LoadS(obj, address, w) ==
    [i \in WordIdx |-> IF i <= w THEN obj[address + i]
                       ELSE IF obj[address + w] >= 128 THEN 255 ELSE 0]

\* a variant of get_simple_value that zero-extends the fields of every type
get_simple_value_zero_extends(obj, val) ==
    LET address == val.offset
    IN  CASE val.type \in {STATS_FS_U8, STATS_FS_S8, STATS_FS_BOOL} -> LoadU(obj, address, 1)
          [] val.type \in {STATS_FS_U16, STATS_FS_S16} -> LoadU(obj, address, 2)
          [] val.type \in {STATS_FS_U32, STATS_FS_S32} -> LoadU(obj, address, 4)
          [] val.type \in {STATS_FS_U64, STATS_FS_S64} -> LoadU(obj, address, 8)
          [] OTHER -> Zero64

\* get_simple_value on the object at base_addr: obj is the content of that object
get_simple_value(obj, val) ==
    LET address == val.offset
    IN  CASE val.type = STATS_FS_U8 -> LoadU(obj, address, 1)
          [] val.type = STATS_FS_S8 -> LoadS(obj, address, 1)
          [] val.type = STATS_FS_U16 -> LoadU(obj, address, 2)
          [] val.type = STATS_FS_S16 -> LoadS(obj, address, 2)
          [] val.type = STATS_FS_U32 -> LoadU(obj, address, 4)
          [] val.type = STATS_FS_S32 -> LoadS(obj, address, 4)
          [] val.type = STATS_FS_U64 -> LoadU(obj, address, 8)
          [] val.type = STATS_FS_S64 -> LoadS(obj, address, 8)
          [] val.type = STATS_FS_BOOL -> LoadU(obj, address, 1)
          [] OTHER -> Zero64

\* obj with the w bytes at address set to zero
StoreZero(obj, address, w) ==
    [i \in DOMAIN obj |-> IF i > address /\ i <= address + w THEN 0 ELSE obj[i]]

\* a variant of clear_simple_value that zeroes one byte whatever the type
clear_one_byte(obj, val) == StoreZero(obj, val.offset, 1)

\* clear_simple_value on the object at base_addr
clear_simple_value(obj, val) ==
    LET address == val.offset
    IN  CASE val.type = STATS_FS_U8 -> StoreZero(obj, address, 1)
          [] val.type = STATS_FS_S8 -> StoreZero(obj, address, 1)
          [] val.type = STATS_FS_U16 -> StoreZero(obj, address, 2)
          [] val.type = STATS_FS_S16 -> StoreZero(obj, address, 2)
          [] val.type = STATS_FS_U32 -> StoreZero(obj, address, 4)
          [] val.type = STATS_FS_S32 -> StoreZero(obj, address, 4)
          [] val.type = STATS_FS_U64 -> StoreZero(obj, address, 8)
          [] val.type = STATS_FS_S64 -> StoreZero(obj, address, 8)
          [] val.type = STATS_FS_BOOL -> StoreZero(obj, address, 1)
          [] OTHER -> obj

(***************************************************************************)
(* State.                                                                  *)
(***************************************************************************)
VARIABLES
    heap,   \* the struct stats_fs_source objects, by address
    mem,    \* the content of the producers' backing objects, by base address
    held,   \* per source: references held by its creator and by explicit gets
    opens,  \* per source: value files currently open
    opener, \* the thread inside stats_fs_attr_data_open, if there is one
    res,    \* the last call and what it returned
    emitter, \* metricfs: the struct metric_emitter of the running callback
    metric, \* metricfs: the struct metric, its reference count and its files
    owner,  \* metricfs: the module that owns the metric
    filp,   \* metricfs: the struct file of every opener
    mres,   \* metricfs: the last call and what it returned
    schema_bufs, \* the buffers stats_fs_schema_open allocated and nobody freed
    reg,    \* metricfs: the thread inside metric_register and big_mutex
    rwsem,  \* per source: the holders of its rw_semaphore
    thr     \* per thread: the call it is inside and how far it got

\* the state of metricfs (kernel/metricfs.c)
mvars == <<emitter, metric, owner, filp, mres>>

\* the schema buffers, the registration in progress, the semaphores and the
\* threads inside a call
xvars == <<schema_bufs, reg, rwsem, thr>>

vars == <<heap, mem, held, opens, opener, res, mvars, xvars>>

\* metric_register is not running and big_mutex is free (DEFINE_MUTEX)
NoRegister ==
    [pc |-> "idle", big_mutex |-> "unlocked", created |-> 0, failed |-> FALSE,
     oops |-> FALSE, ret |-> "none"]

\* an rw_semaphore after init_rwsem: no reader and no writer
Unlocked == [readers |-> {}, writer |-> 0]

NThreads == 2
Threads == 1..NThreads

\* a thread that is inside no call
IdleThread == [pc |-> "idle"]

\* a slot that holds no source (never allocated, or freed by kfree)
FreeSrc ==
    [alive |-> FALSE, refcount |-> 0, values_head |-> <<>>,
     subordinates_head |-> <<>>, labels_head |-> <<>>,
     source_dentry |-> NULL, schema_file |-> FALSE, vfiles |-> {}]

\* the label (label_key, name) of source s
Label(s) == [key |-> <<"label_key", s>>, value |-> <<"name", s>>]

\* the source stats_fs_source_create returns at address s
NewSrc(s) ==
    [alive |-> TRUE, refcount |-> 1, values_head |-> <<>>,
     subordinates_head |-> <<>>, labels_head |-> <<Label(s)>>,
     source_dentry |-> NULL, schema_file |-> FALSE, vfiles |-> {}]

\* a variant of list_add that inserts new at the end of the list
list_add_tail(new, list) == list \o <<new>>

\* list_add(new, head): insert new right after the head
list_add(new, list) == <<new>> \o list
\* list_del_init of the entry at position i
list_del(list, i) == SubSeq(list, 1, i - 1) \o SubSeq(list, i + 1, Len(list))

Range(f) == {f[i] : i \in DOMAIN f}
Reverse(list) == [i \in 1..Len(list) |-> list[Len(list) + 1 - i]]
\* position of x in list, 0 when absent
RECURSIVE IndexFrom(_, _, _)
IndexFrom(list, x, i) ==
    IF i > Len(list) THEN 0
    ELSE IF list[i] = x THEN i
    ELSE IndexFrom(list, x, i + 1)
IndexOf(list, x) == IndexFrom(list, x, 1)

\* the sources that have p in their subtree ... and the subtree itself
RECURSIVE Subtree(_, _)
Subtree(h, s) == {s} \cup UNION {Subtree(h, c) : c \in Range(h[s].subordinates_head)}
Parents(h, c) == {p \in Sources : h[p].alive /\ c \in Range(h[p].subordinates_head)}
\* list_empty(&c->list_element): c is in no subordinate list
Unlinked(h, c) == Parents(h, c) = {}

(***************************************************************************)
(* The aggregator.                                                         *)
(***************************************************************************)
\* a variant of find_value that takes every binding for a match
FindAnyValue(src_entry, arg) == TRUE

\* find_value: arg is an element of the array of binding src_entry
find_value(src_entry, arg) ==
    arg.arr = src_entry.values /\ arg.idx \in 1..Len(ValueArrays[src_entry.values])

\* search_value_in_source: the position in values_head of the first binding
\* whose array holds arg, 0 when there is none
RECURSIVE SearchValueFrom(_, _, _)
SearchValueFrom(list, arg, i) ==
    IF i > Len(list) THEN 0
    ELSE IF find_value(list[i], arg) THEN i
    ELSE SearchValueFrom(list, arg, i + 1)
search_value_in_source(h, source, arg) == SearchValueFrom(h[source].values_head, arg, 1)

\* one turn of the loop of search_all_simple_values on a binding that matches
\* a variant of AggUpdate that compares every field as unsigned
agg_update_unsigned(agg, val, value_found) ==
    [sum |-> Add64(agg.sum, value_found),
     count |-> agg.count + 1,
     count_zero |-> agg.count_zero + (IF value_found = Zero64 THEN 1 ELSE 0),
     max |-> IF ULe64(agg.max, value_found) THEN value_found ELSE agg.max,
     min |-> IF ULe64(value_found, agg.min) THEN value_found ELSE agg.min]

AggUpdate(agg, val, value_found) ==
    [sum |-> Add64(agg.sum, value_found),
     count |-> agg.count + 1,
     count_zero |-> agg.count_zero + (IF value_found = Zero64 THEN 1 ELSE 0),
     max |-> IF is_val_signed(val)
             THEN (IF SLe64(agg.max, value_found) THEN value_found ELSE agg.max)
             ELSE (IF ULe64(agg.max, value_found) THEN value_found ELSE agg.max),
     min |-> IF is_val_signed(val)
             THEN (IF SLe64(value_found, agg.min) THEN value_found ELSE agg.min)
             ELSE (IF ULe64(value_found, agg.min) THEN value_found ELSE agg.min)]

\* a variant of Contributes that does not compare the arrays
ContributesAnyArray(src_entry, ref) == src_entry.base_addr # NULL

\* does the binding src_entry contribute to an aggregate found in array ref
Contributes(src_entry, ref) ==
    src_entry.base_addr # NULL /\ src_entry.values = ref

RECURSIVE SearchAllFrom(_, _, _, _, _, _)
SearchAllFrom(m, list, ref, val, agg, i) ==
    IF i > Len(list) THEN agg
    ELSE IF Contributes(list[i], ref)
         THEN SearchAllFrom(m, list, ref, val,
                  AggUpdate(agg, val, get_simple_value(m[list[i].base_addr], val)), i + 1)
         ELSE SearchAllFrom(m, list, ref, val, agg, i + 1)

search_all_simple_values(h, m, src, ref, val, agg) ==
    SearchAllFrom(m, h[src].values_head, ref, val, agg, 1)

\* a variant of do_recursive_aggregation that stops at the subordinates of
\* root and does not descend into theirs
RECURSIVE OneLevelFrom(_, _, _, _, _, _, _)
OneLevelFrom(h, m, list, ref, val, agg, i) ==
    IF i > Len(list) THEN agg
    ELSE OneLevelFrom(h, m, list, ref, val,
             search_all_simple_values(h, m, list[i], ref, val, agg), i + 1)

aggregation_one_level(h, m, root, ref, val, agg) ==
    OneLevelFrom(h, m, h[root].subordinates_head, ref, val,
                 search_all_simple_values(h, m, root, ref, val, agg), 1)

RECURSIVE do_recursive_aggregation(_, _, _, _, _, _)
RECURSIVE AggSubordinates(_, _, _, _, _, _, _)
AggSubordinates(h, m, list, ref, val, agg, i) ==
    IF i > Len(list) THEN agg
    ELSE AggSubordinates(h, m, list, ref, val,
             do_recursive_aggregation(h, m, list[i], ref, val, agg), i + 1)

do_recursive_aggregation(h, m, root, ref, val, agg) ==
    AggSubordinates(h, m, h[root].subordinates_head, ref, val,
                    search_all_simple_values(h, m, root, ref, val, agg), 1)

\* a variant of init_aggregate_value that starts every field at zero
init_aggregate_zero(val) ==
    [sum |-> Zero64, count |-> 0, count_zero |-> 0, max |-> Zero64, min |-> Zero64]

init_aggregate_value(val) ==
    [sum |-> Zero64, count |-> 0, count_zero |-> 0,
     max |-> IF is_val_signed(val) THEN S64_MIN ELSE Zero64,
     min |-> IF is_val_signed(val) THEN S64_MAX ELSE U64_MAX]

\* a variant of store_final_value that divides the sum as unsigned for every type
store_final_unsigned_avg(agg, val, ret) ==
    CASE val.aggr_kind = STATS_FS_AVG ->
             IF agg.count # 0 THEN UDiv64(agg.sum, agg.count) ELSE Zero64
      [] val.aggr_kind = STATS_FS_SUM -> agg.sum
      [] val.aggr_kind = STATS_FS_MIN -> agg.min
      [] val.aggr_kind = STATS_FS_MAX -> agg.max
      [] val.aggr_kind = STATS_FS_COUNT_ZERO -> W(agg.count_zero)
      [] OTHER -> ret

\* store_final_value: ret is the value *ret holds before the call
store_final_value(agg, val, ret) ==
    LET operation == val.aggr_kind + (IF is_val_signed(val) THEN STATS_FS_SIGN ELSE 0)
    IN  CASE operation = STATS_FS_AVG ->
                 IF agg.count # 0 THEN UDiv64(agg.sum, agg.count) ELSE Zero64
          [] operation = STATS_FS_AVG + STATS_FS_SIGN ->
                 IF agg.count # 0 THEN SDiv64(agg.sum, agg.count) ELSE Zero64
          [] operation \in {STATS_FS_SUM, STATS_FS_SUM + STATS_FS_SIGN} -> agg.sum
          [] operation \in {STATS_FS_MIN, STATS_FS_MIN + STATS_FS_SIGN} -> agg.min
          [] operation \in {STATS_FS_MAX, STATS_FS_MAX + STATS_FS_SIGN} -> agg.max
          [] operation \in {STATS_FS_COUNT_ZERO, STATS_FS_COUNT_ZERO + STATS_FS_SIGN} ->
                 W(agg.count_zero)
          [] OTHER -> ret

\* a variant of ReadsOwnField under which every read walks the subtree
NeverReadsOwnField(src_entry) == FALSE

\* does the binding found for a descriptor answer by a read of its own field
ReadsOwnField(src_entry) == src_entry.base_addr # NULL

\* the null descriptor pointer
NullVal == [arr |-> "", idx |-> 0]

\* stats_fs_source_get_value_locked: the pair of the return value and *ret.
\* arg is a descriptor pointer or NullVal.
stats_fs_source_get_value_locked(h, m, source, arg) ==
    IF arg = NullVal THEN [err |-> -ENOENT, ret |-> Zero64]
    ELSE LET i == search_value_in_source(h, source, arg)
             src_entry == h[source].values_head[i]
             found == Deref(arg)
         IN  IF i = 0 THEN [err |-> -ENOENT, ret |-> Zero64]
             ELSE IF ReadsOwnField(src_entry)
                  THEN [err |-> 0, ret |-> get_simple_value(m[src_entry.base_addr], found)]
                  ELSE [err |-> 0,
                        ret |-> store_final_value(
                                    do_recursive_aggregation(h, m, source, src_entry.values,
                                        found, init_aggregate_value(found)),
                                    found, Zero64)]

stats_fs_source_get_value(h, m, source, arg) ==
    stats_fs_source_get_value_locked(h, m, source, arg)

\* find_value_by_name: the index in array a of the first descriptor named n, or 0
RECURSIVE FindNameFrom(_, _, _)
FindNameFrom(a, n, i) ==
    IF i > Len(ValueArrays[a]) THEN 0
    ELSE IF ValueArrays[a][i].name = n THEN i
    ELSE FindNameFrom(a, n, i + 1)
find_value_by_name(src_entry, n) == FindNameFrom(src_entry.values, n, 1)

\* search_in_source_by_name: the descriptor pointer found, or NullVal
RECURSIVE SearchNameFrom(_, _, _)
SearchNameFrom(list, n, i) ==
    IF i > Len(list) THEN NullVal
    ELSE IF find_value_by_name(list[i], n) # 0
         THEN [arr |-> list[i].values, idx |-> find_value_by_name(list[i], n)]
         ELSE SearchNameFrom(list, n, i + 1)
search_in_source_by_name(h, src, n) == SearchNameFrom(h[src].values_head, n, 1)

stats_fs_source_get_value_by_name(h, m, source, n) ==
    LET val == search_in_source_by_name(h, source, n)
    IN  IF val = NullVal THEN [err |-> -ENOENT, ret |-> Zero64]
        ELSE stats_fs_source_get_value_locked(h, m, source, val)

(***************************************************************************)
(* Clear.                                                                  *)
(***************************************************************************)
RECURSIVE SetAllFrom(_, _, _, _, _)
SetAllFrom(m, list, ref, val, i) ==
    IF i > Len(list) THEN m
    ELSE IF Contributes(list[i], ref)
         THEN SetAllFrom([m EXCEPT ![list[i].base_addr] = clear_simple_value(@, val)],
                         list, ref, val, i + 1)
         ELSE SetAllFrom(m, list, ref, val, i + 1)

\* set_all_simple_values: the memory after the loop
set_all_simple_values(h, m, src, ref, val) ==
    SetAllFrom(m, h[src].values_head, ref, val, 1)

\* a variant of do_recursive_clean that stops at the root
clean_root_only(h, m, root, ref, val) == set_all_simple_values(h, m, root, ref, val)

RECURSIVE do_recursive_clean(_, _, _, _, _)
RECURSIVE CleanSubordinates(_, _, _, _, _, _)
CleanSubordinates(h, m, list, ref, val, i) ==
    IF i > Len(list) THEN m
    ELSE CleanSubordinates(h, do_recursive_clean(h, m, list[i], ref, val),
                           list, ref, val, i + 1)

do_recursive_clean(h, m, root, ref, val) ==
    CleanSubordinates(h, set_all_simple_values(h, m, root, ref, val),
                      h[root].subordinates_head, ref, val, 1)

\* stats_fs_source_clear_locked: the return value and the memory afterwards
stats_fs_source_clear_locked(h, m, source, val) ==
    IF val = NullVal THEN [err |-> -ENOENT, mem |-> m]
    ELSE LET i == search_value_in_source(h, source, val)
             src_entry == h[source].values_head[i]
             found == Deref(val)
         IN  IF i = 0 THEN [err |-> -ENOENT, mem |-> m]
             ELSE IF src_entry.base_addr # NULL
                  THEN [err |-> 0,
                        mem |-> [m EXCEPT ![src_entry.base_addr] =
                                              clear_simple_value(@, found)]]
                  ELSE [err |-> 0,
                        mem |-> do_recursive_clean(h, m, source, src_entry.values, found)]

stats_fs_source_clear(h, m, source, val) == stats_fs_source_clear_locked(h, m, source, val)

(***************************************************************************)
(* Files, the subordinate tree and reference counts.  Each operator maps   *)
(* the heap before the call to the heap after it.                          *)
(***************************************************************************)
\* the descriptor pointers of array a
ValsOf(a) == {[arr |-> a, idx |-> i] : i \in 1..Len(ValueArrays[a])}

\* stats_fs_create_files_locked
stats_fs_create_files_locked(h, source) ==
    IF h[source].source_dentry = NULL THEN h
    ELSE LET list == h[source].values_head
             fresh == {i \in 1..Len(list) : ~list[i].files_created}
         IN  [h EXCEPT
                ![source].vfiles = @ \cup UNION {ValsOf(list[i].values) : i \in fresh},
                ![source].values_head =
                    [i \in 1..Len(list) |-> [list[i] EXCEPT !.files_created = TRUE]]]

RECURSIVE stats_fs_create_files_recursive_locked(_, _)
RECURSIVE CreateChildrenFrom(_, _, _)
\* the loop over the subordinates of source, from position i
CreateChildrenFrom(h, source, i) ==
    IF i > Len(h[source].subordinates_head) THEN h
    ELSE LET child == h[source].subordinates_head[i]
         IN  CreateChildrenFrom(
                 IF h[child].source_dentry = NULL
                 THEN stats_fs_create_files_recursive_locked(h, child)
                 ELSE h,
                 source, i + 1)

stats_fs_create_files_recursive_locked(h, source) ==
    LET h1 == IF h[source].source_dentry = NULL
              THEN [h EXCEPT ![source].source_dentry = 1, ![source].schema_file = TRUE]
              ELSE h
    IN  CreateChildrenFrom(stats_fs_create_files_locked(h1, source), source, 1)

RECURSIVE stats_fs_source_remove_files(_, _)
RECURSIVE RemoveFilesFrom(_, _, _)
RemoveFilesFrom(h, list, i) ==
    IF i > Len(list) THEN h
    ELSE RemoveFilesFrom(stats_fs_source_remove_files(h, list[i]), list, i + 1)

stats_fs_source_remove_files_locked(h, src) ==
    IF h[src].source_dentry = NULL THEN h
    ELSE [RemoveFilesFrom(h, h[src].subordinates_head, 1) EXCEPT
            ![src].source_dentry = NULL, ![src].schema_file = FALSE, ![src].vfiles = {}]

stats_fs_source_remove_files(h, src) == stats_fs_source_remove_files_locked(h, src)

RECURSIVE stats_fs_source_put(_, _)
RECURSIVE stats_fs_source_destroy(_, _)
RECURSIVE stats_fs_source_remove_subordinate_locked(_, _, _)
RECURSIVE DestroySubordinates(_, _)

\* a variant of stats_fs_source_remove_subordinate_locked that drops the
\* files and the reference of sub and leaves it in the list
remove_subordinate_keeps_link(h, source, sub) ==
    LET i == IndexOf(h[source].subordinates_head, sub)
    IN  IF i = 0 THEN h
        ELSE [stats_fs_source_remove_files(h, sub) EXCEPT ![sub].refcount = @ - 1]

stats_fs_source_remove_subordinate_locked(h, source, sub) ==
    LET i == IndexOf(h[source].subordinates_head, sub)
    IN  IF i = 0 THEN h
        ELSE stats_fs_source_put(
                 stats_fs_source_remove_files(
                     [h EXCEPT ![source].subordinates_head = list_del(@, i)], sub),
                 sub)

\* a variant of DestroySubordinates that leaves the children alone
DestroyKeepsChildren(h, source) == h

\* the list_for_each_safe loop of stats_fs_source_destroy over the subordinates
DestroySubordinates(h, source) ==
    IF h[source].subordinates_head = <<>> THEN h
    ELSE DestroySubordinates(
             stats_fs_source_remove_subordinate_locked(
                 h, source, Head(h[source].subordinates_head)),
             source)

\* stats_fs_source_destroy: called with the count at 0, frees the source
stats_fs_source_destroy(h, source) ==
    LET h1 == [h EXCEPT ![source].values_head = <<>>]
        h2 == DestroySubordinates(h1, source)
        h3 == [h2 EXCEPT ![source].labels_head = <<>>]
        h4 == stats_fs_source_remove_files_locked(h3, source)
    IN  [h4 EXCEPT ![source] = FreeSrc]

\* kref_put_rwsem: the release function runs when the count drops to 0
kref_put_rwsem(h, source) ==
    IF h[source].refcount = 1
    THEN stats_fs_source_destroy([h EXCEPT ![source].refcount = 0], source)
    ELSE [h EXCEPT ![source].refcount = @ - 1]

stats_fs_source_put(h, source) == kref_put_rwsem(h, source)

\* stats_fs_source_get
stats_fs_source_get(h, source) == [h EXCEPT ![source].refcount = @ + 1]

(***************************************************************************)
(* The calls.  Each action is one call of the API by a thread that may     *)
(* make it; res records the call and what it returned.                     *)
(***************************************************************************)
NoRet == Zero64
Res(op, src, sub, val, name, base, err, ret) ==
    [op |-> op, src |-> src, sub |-> sub, val |-> val, name |-> name,
     base |-> base, err |-> err, ret |-> ret]

\* no thread is inside stats_fs_attr_data_open
Idle == [pc |-> "idle", src |-> NULL, val |-> NullVal]

\* stats_fs_source_create: the allocator returns the lowest free address
Create(s) ==
    /\ ~heap[s].alive
    /\ \A t \in Sources : t < s => heap[t].alive
    /\ heap' = [heap EXCEPT ![s] = NewSrc(s)]
    /\ held' = [held EXCEPT ![s] = 1]
    /\ res' = Res("create", s, NULL, NullVal, "", NULL, 0, NoRet)
    /\ UNCHANGED <<xvars, mvars, mem, opens, opener>>

\* a variant of HasBinding that compares the arrays only
HasArray(h, source, stat, ptr) ==
    \E i \in 1..Len(h[source].values_head) : h[source].values_head[i].values = stat

\* a variant of HasBinding that finds nothing
NeverHasBinding(h, source, stat, ptr) == FALSE

\* does source hold a binding of array stat at base ptr
HasBinding(h, source, stat, ptr) ==
    \E i \in 1..Len(h[source].values_head) :
        /\ h[source].values_head[i].base_addr = ptr
        /\ h[source].values_head[i].values = stat

\* stats_fs_source_add_values: the return value and the heap afterwards
stats_fs_source_add_values(h, source, stat, ptr) ==
    IF HasBinding(h, source, stat, ptr)
    THEN [err |-> -EEXIST, heap |-> h]
    ELSE [err |-> 0,
          heap |-> stats_fs_create_files_locked(
                       [h EXCEPT ![source].values_head =
                            list_add([values |-> stat, base_addr |-> ptr,
                                      files_created |-> FALSE], @)],
                       source)]

AddValues(s, stat, ptr) ==
    /\ heap[s].alive
    /\ HasBinding(heap, s, stat, ptr) \/ Len(heap[s].values_head) < MaxBindings
    /\ LET r == stats_fs_source_add_values(heap, s, stat, ptr)
       IN  /\ heap' = r.heap
           /\ res' = Res("add_values", s, NULL, [arr |-> stat, idx |-> 0], "", ptr,
                         r.err, NoRet)
    /\ UNCHANGED <<xvars, mvars, mem, held, opens, opener>>

\* stats_fs_source_register
stats_fs_source_register(h, source) == stats_fs_create_files_recursive_locked(h, source)

Register(s) ==
    /\ heap[s].alive
    /\ heap' = stats_fs_source_register(heap, s)
    /\ res' = Res("register", s, NULL, NullVal, "", NULL, 0, NoRet)
    /\ UNCHANGED <<xvars, mvars, mem, held, opens, opener>>

\* the labels of sub after the labels of source were copied to it
CopyLabels(h, source, sub) == Reverse(h[source].labels_head) \o h[sub].labels_head

\* stats_fs_source_add_subordinate
stats_fs_source_add_subordinate(h, source, sub) ==
    LET h1 == stats_fs_source_get(h, sub)
        h2 == [h1 EXCEPT ![source].subordinates_head = list_add(sub, @)]
        h3 == [h2 EXCEPT ![sub].labels_head = CopyLabels(h2, source, sub)]
    IN  IF h3[source].source_dentry # NULL
        THEN stats_fs_create_files_recursive_locked(h3, sub)
        ELSE h3

\* The producers keep the sources a tree: sub is in no subordinate list and
\* is not source or one of its ancestors.
AddSubordinate(p, c) ==
    /\ heap[p].alive /\ heap[c].alive
    /\ Unlinked(heap, c)
    /\ p \notin Subtree(heap, c)
    /\ Len(heap[p].labels_head) + Len(heap[c].labels_head) <= MaxLabels
    /\ heap' = stats_fs_source_add_subordinate(heap, p, c)
    /\ res' = Res("add_subordinate", p, c, NullVal, "", NULL, 0, NoRet)
    /\ UNCHANGED <<xvars, mvars, mem, held, opens, opener>>

stats_fs_source_remove_subordinate(h, source, sub) ==
    stats_fs_source_remove_subordinate_locked(h, source, sub)

RemoveSubordinate(p, c) ==
    /\ heap[p].alive /\ heap[c].alive
    /\ heap' = stats_fs_source_remove_subordinate(heap, p, c)
    /\ res' = Res("remove_subordinate", p, c, NullVal, "", NULL, 0, NoRet)
    /\ UNCHANGED <<xvars, mvars, mem, held, opens, opener>>

\* an explicit stats_fs_source_get by a thread that will put it later
Get(s) ==
    /\ heap[s].alive
    /\ held[s] < MaxHeld
    /\ heap' = stats_fs_source_get(heap, s)
    /\ held' = [held EXCEPT ![s] = @ + 1]
    /\ res' = Res("get", s, NULL, NullVal, "", NULL, 0, NoRet)
    /\ UNCHANGED <<xvars, mvars, mem, opens, opener>>

\* stats_fs_source_put by the creator or by a thread that did a get
Put(s) ==
    /\ heap[s].alive
    /\ held[s] > 0
    /\ heap' = stats_fs_source_put(heap, s)
    /\ held' = [held EXCEPT ![s] = @ - 1]
    /\ res' = Res("put", s, NULL, NullVal, "", NULL, 0, NoRet)
    /\ UNCHANGED <<xvars, mvars, mem, opens, opener>>

\* a variant of stats_fs_source_revoke that leaves the bases in place
RevokeNothing(h, source) == h

\* a variant of stats_fs_source_revoke that revokes the subordinates too
revoke_subtree(h, source) ==
    [t \in Sources |->
        IF t \in Subtree(h, source)
        THEN [h[t] EXCEPT !.values_head =
                 [i \in 1..Len(@) |-> [@[i] EXCEPT !.base_addr = NULL]]]
        ELSE h[t]]

\* stats_fs_source_revoke
stats_fs_source_revoke(h, source) ==
    [h EXCEPT ![source].values_head =
        [i \in 1..Len(@) |-> [@[i] EXCEPT !.base_addr = NULL]]]

Revoke(s) ==
    /\ heap[s].alive
    /\ heap' = stats_fs_source_revoke(heap, s)
    /\ res' = Res("revoke", s, NULL, NullVal, "", NULL, 0, NoRet)
    /\ UNCHANGED <<xvars, mvars, mem, held, opens, opener>>

GetValue(s, v) ==
    /\ heap[s].alive
    /\ LET r == stats_fs_source_get_value(heap, mem, s, v)
       IN  res' = Res("get_value", s, NULL, v, "", NULL, r.err, r.ret)
    /\ UNCHANGED <<xvars, mvars, heap, mem, held, opens, opener>>

GetValueByName(s, n) ==
    /\ heap[s].alive
    /\ LET r == stats_fs_source_get_value_by_name(heap, mem, s, n)
       IN  res' = Res("get_value_by_name", s, NULL, NullVal, n, NULL, r.err, r.ret)
    /\ UNCHANGED <<xvars, mvars, heap, mem, held, opens, opener>>

Clear(s, v) ==
    /\ heap[s].alive
    /\ LET r == stats_fs_source_clear(heap, mem, s, v)
       IN  /\ mem' = r.mem
           /\ res' = Res("clear", s, NULL, v, "", NULL, r.err, NoRet)
    /\ UNCHANGED <<xvars, mvars, heap, held, opens, opener>>

\* kref_get_unless_zero: whether the reference was taken, and the heap afterwards
kref_get_unless_zero(h, source) ==
    IF h[source].refcount = 0
    THEN [ok |-> FALSE, heap |-> h]
    ELSE [ok |-> TRUE, heap |-> [h EXCEPT ![source].refcount = @ + 1]]

\* a variant of stats_fs_attr_data_open that keeps the reference when
\* simple_attr_open fails
attr_data_open_keeps_ref(h, source, val, attr_ok) ==
    LET g == kref_get_unless_zero(h, source)
    IN  IF ~g.ok THEN [err |-> -ENOENT, heap |-> h]
        ELSE IF ~attr_ok THEN [err |-> -ENOMEM, heap |-> g.heap]
        ELSE [err |-> 0, heap |-> g.heap]

\* stats_fs_attr_data_open on the value file of (source, val); attr_ok is
\* whether simple_attr_open succeeds
stats_fs_attr_data_open(h, source, val, attr_ok) ==
    LET g == kref_get_unless_zero(h, source)
    IN  IF ~g.ok THEN [err |-> -ENOENT, heap |-> h]
        ELSE IF ~attr_ok THEN [err |-> -ENOMEM, heap |-> stats_fs_source_put(g.heap, source)]
        ELSE [err |-> 0, heap |-> g.heap]

\* open(2) of a value file that exists, with no other thread in between
Open(s, v, attr_ok) ==
    /\ opener = Idle
    /\ heap[s].alive
    /\ v \in heap[s].vfiles
    /\ opens[s] < MaxOpen
    /\ LET r == stats_fs_attr_data_open(heap, s, v, attr_ok)
       IN  /\ heap' = r.heap
           /\ opens' = [opens EXCEPT ![s] = IF r.err = 0 THEN @ + 1 ELSE @]
           /\ res' = Res("open", s, NULL, v, "", NULL, r.err, NoRet)
    /\ UNCHANGED <<xvars, mvars, mem, held, opener>>

\* stats_fs_attr_release
stats_fs_attr_release(h, source) == stats_fs_source_put(h, source)

\* close(2) of an open value file
Release(s) ==
    /\ heap[s].alive
    /\ opens[s] > 0
    /\ heap' = stats_fs_attr_release(heap, s)
    /\ opens' = [opens EXCEPT ![s] = @ - 1]
    /\ res' = Res("release", s, NULL, NullVal, "", NULL, 0, NoRet)
    /\ UNCHANGED <<xvars, mvars, mem, held, opener>>

\* the format stats_fs_attr_data_open hands to simple_attr_open
attr_fmt(val) == IF is_val_signed(val) THEN "%lld\n" ELSE "%llu\n"

\* stats_fs_attr_get, the get handler of a value file
stats_fs_attr_get(h, m, source, val) == stats_fs_source_get_value(h, m, source, val)

\* open(2), read(2) and close(2) of a value file by one thread with no other
\* in between: the open takes a reference, the read calls stats_fs_attr_get
\* and prints the value with the format of the open, the close puts the
\* reference
ReadFile(s, v) ==
    /\ opener = Idle
    /\ heap[s].alive
    /\ v \in heap[s].vfiles
    /\ LET r == stats_fs_attr_get(heap, mem, s, v)
       IN  res' = Res("read_file", s, NULL, v, "", NULL, r.err, r.ret)
                      @@ [fmt |-> attr_fmt(Deref(v))]
    /\ UNCHANGED <<xvars, mvars, heap, mem, held, opens, opener>>

\* stats_fs_val_get_mode: 0644 when the descriptor sets no mode
stats_fs_val_get_mode(val) == IF val.mode # 0 THEN val.mode ELSE 420

\* stats_fs_val_get_mode(val) & 0222: whether stats_fs_attr_data_open hands
\* stats_fs_attr_clear to simple_attr_open as the set handler
attr_set(val) == \E bit \in {2, 16, 128} : (stats_fs_val_get_mode(val) \div bit) % 2 = 1

\* a variant of stats_fs_attr_clear that clears whatever was written
attr_clear_any_value(h, m, source, val, written) == stats_fs_source_clear(h, m, source, val)

\* stats_fs_attr_clear, the set handler of a value file; written is the
\* 64-bit integer parsed from the bytes written
stats_fs_attr_clear(h, m, source, val, written) ==
    IF written # Zero64 THEN [err |-> -EINVAL, mem |-> m]
    ELSE stats_fs_source_clear(h, m, source, val)

\* open(2), write(2) and close(2) of a value file by one thread with no
\* other in between.  simple_attr_write fails with -EACCES when the open
\* installed no set handler and calls the handler otherwise.
WriteFile(s, v, written) ==
    /\ opener = Idle
    /\ heap[s].alive
    /\ v \in heap[s].vfiles
    /\ LET r == IF attr_set(Deref(v))
                THEN stats_fs_attr_clear(heap, mem, s, v, written)
                ELSE [err |-> -EACCES, mem |-> mem]
       IN  /\ mem' = r.mem
           /\ res' = Res("write_file", s, NULL, v, "", NULL, r.err, NoRet)
                          @@ [written |-> written]
    /\ UNCHANGED <<xvars, mvars, heap, held, opens, opener>>

(***************************************************************************)
(* The value-file open and the final put, step by step.  The inode of a    *)
(* value file holds a pointer to its source that is not counted in the     *)
(* reference count.                                                        *)
(***************************************************************************)
\* a thread enters stats_fs_attr_data_open and loads val_inode from i_private
OpenEnter(s, v) ==
    /\ opener = Idle
    /\ heap[s].alive
    /\ v \in heap[s].vfiles
    /\ opens[s] < MaxOpen
    /\ opener' = [pc |-> "entered", src |-> s, val |-> v]
    /\ res' = Res("open_enter", s, NULL, v, "", NULL, 0, NoRet)
    /\ UNCHANGED <<xvars, mvars, heap, mem, held, opens>>

\* The thread runs kref_get_unless_zero(&val_inode->src->refcount) and the
\* rest of the open.  When the source was freed in between, the count is read
\* from freed memory: it reads as zero or as non-zero (use_after_free).
OpenGet(attr_ok, use_after_free) ==
    /\ opener.pc = "entered"
    /\ LET s == opener.src
           r == IF heap[s].alive
                THEN stats_fs_attr_data_open(heap, s, opener.val, attr_ok)
                ELSE [err |-> IF ~use_after_free THEN -ENOENT
                              ELSE IF ~attr_ok THEN -ENOMEM ELSE 0,
                      heap |-> heap]
       IN  /\ heap' = r.heap
           /\ opens' = [opens EXCEPT ![s] = IF r.err = 0 THEN @ + 1 ELSE @]
           /\ res' = Res("open", s, NULL, opener.val, "", NULL, r.err, NoRet)
    /\ opener' = Idle
    /\ UNCHANGED <<xvars, mvars, mem, held>>

\* stats_fs_source_put of the last reference, up to the point where
\* kref_put_rwsem has brought the count to zero and is about to call
\* stats_fs_source_destroy
PutBegin(s) ==
    /\ heap[s].alive
    /\ held[s] > 0
    /\ heap[s].refcount = 1
    /\ heap' = [heap EXCEPT ![s].refcount = 0]
    /\ held' = [held EXCEPT ![s] = @ - 1]
    /\ res' = Res("put_begin", s, NULL, NullVal, "", NULL, 0, NoRet)
    /\ UNCHANGED <<xvars, mvars, mem, opens, opener>>

\* stats_fs_source_destroy runs to its kfree and the put returns
DestroyRun(s) ==
    /\ heap[s].alive
    /\ heap[s].refcount = 0
    /\ heap' = stats_fs_source_destroy(heap, s)
    /\ res' = Res("put", s, NULL, NullVal, "", NULL, 0, NoRet)
    /\ UNCHANGED <<xvars, mvars, mem, held, opens, opener>>

(***************************************************************************)
(* Metricfs (kernel/metricfs.c): strings, the emitter and the rows.        *)
(*                                                                         *)
(* A string is a sequence of characters.  A buffer is a sequence of bytes, *)
(* each a character, the terminator NUL or a byte that was never written.  *)
(* The buffers are shorter than in the source (ValuesBufSize,              *)
(* AnnotationsBufSize, FieldsBufSize) so that a few rows fill them.         *)
(***************************************************************************)
\* the terminating zero byte of a C string
NUL == "\\0"

\* a byte of an allocation that was never written
Uninit == "uninit"

\* a null pointer to a string (no string holds a NUL)
NoStr == <<NUL>>

\* the size of a values buffer (METRICFS_VALUES_BUF_SIZE, 64 KiB in the source)
ValuesBufSize == 12

Min(a, b) == IF a < b THEN a ELSE b

\* struct char_tracker
char_tracker(dest, size, pos) == [dest |-> dest, size |-> size, pos |-> pos]

\* add_char
add_char(t, c) ==
    [t EXCEPT !.dest = IF t.pos < t.size THEN [@ EXCEPT ![t.pos + 1] = c] ELSE @,
              !.pos = @ + 1]

\* a variant of the loop body of escape_string that leaves backslashes alone
escape_char_keeps_backslash(t, c) ==
    IF c = "\n" THEN add_char(add_char(t, "\\"), "n")
    ELSE IF c = " " THEN add_char(add_char(t, "\\"), c)
    ELSE add_char(t, c)

\* one turn of the loop of escape_string
escape_char(t, c) ==
    IF c = "\n" THEN add_char(add_char(t, "\\"), "n")
    ELSE IF c = " " \/ c = "\\" THEN add_char(add_char(t, "\\"), c)
    ELSE add_char(t, c)

RECURSIVE escape_loop(_, _)
escape_loop(t, s) ==
    IF s = <<>> THEN t ELSE escape_loop(escape_char(t, Head(s)), Tail(s))

\* escape_string: dest is the memory from the destination pointer on; the
\* result is the tracker, whose pos is the value returned
escape_string(dest, s, size) == escape_loop(char_tracker(dest, size, 0), s)

\* snprintf(dest, size, "%s", text): at most size - 1 characters and the
\* terminator are stored; the length of the whole text is returned
snprintf(dest, size, text) ==
    LET k == Min(Len(text), size - 1)
    IN  [dest |-> IF size = 0 THEN dest
                  ELSE [i \in 1..Len(dest) |->
                           IF i <= k THEN text[i]
                           ELSE IF i = k + 1 THEN NUL ELSE dest[i]],
         pos |-> Len(text)]

DigitChar(d) == <<"0", "1", "2", "3", "4", "5", "6", "7", "8", "9">>[d + 1]

RECURSIVE Digits(_)
Digits(n) ==
    IF n < 10 THEN <<DigitChar(n)>> ELSE Digits(n \div 10) \o <<DigitChar(n % 10)>>

\* the text of the conversion "%lld"
Decimal(i) == IF i < 0 THEN <<"-">> \o Digits(-i) ELSE Digits(i)

\* struct metric_emitter: buf is the offset of the cursor e->buf from
\* e->orig_buf, orig_buf is the content of the buffer
metric_emitter(size) ==
    [buf |-> 0, orig_buf |-> [i \in 1..size |-> Uninit], size |-> size]

\* no callback is running
NoEmitter == metric_emitter(0)

\* emit_bytes_left
emit_bytes_left(e) == e.size - e.buf

\* the memory from e->buf to the end of the buffer
AtCursor(e) == SubSeq(e.orig_buf, e.buf + 1, e.size)

\* a variant of the tail of the emit functions that also accepts a text
\* which fills the bytes left exactly
advance_exact_fit(e, r) ==
    LET bytes_left == emit_bytes_left(e)
    IN  [e |-> [e EXCEPT !.orig_buf = SubSeq(@, 1, e.buf) \o r.dest,
                         !.buf = @ + Min(r.pos, bytes_left)],
         ok |-> r.pos <= bytes_left]

\* the tail shared by emit_string, emit_quoted_string and emit_int: the
\* bytes are stored, the cursor advances by min(rc, bytes_left)
Advance(e, r) ==
    LET bytes_left == emit_bytes_left(e)
    IN  [e |-> [e EXCEPT !.orig_buf = SubSeq(@, 1, e.buf) \o r.dest,
                         !.buf = @ + Min(r.pos, bytes_left)],
         ok |-> r.pos < bytes_left]

\* emit_string
emit_string(e, s) == Advance(e, snprintf(AtCursor(e), emit_bytes_left(e), s))

\* emit_quoted_string
emit_quoted_string(e, s) == Advance(e, escape_string(AtCursor(e), s, emit_bytes_left(e)))

\* emit_int
emit_int(e, i) == Advance(e, snprintf(AtCursor(e), emit_bytes_left(e), Decimal(i)))

\* a variant of the last statement of metric_emit_*_value that never rolls back
keep_cursor(e, ckpt, ok) == e

\* the last statement of metric_emit_int_value and metric_emit_str_value
restore_ckpt(e, ckpt, ok) == IF ~ok THEN [e EXCEPT !.buf = ckpt] ELSE e

\* the fields of a row: f1 is looked at only when f0 is given
emit_fields(e, f0, f1) ==
    IF f0 = NoStr THEN [e |-> e, ok |-> TRUE]
    ELSE LET a == emit_quoted_string(e, f0)
             b == emit_string(a.e, <<" ">>)
         IN  IF f1 = NoStr THEN [e |-> b.e, ok |-> a.ok /\ b.ok]
             ELSE LET c == emit_quoted_string(b.e, f1)
                      d == emit_string(c.e, <<" ">>)
                  IN  [e |-> d.e, ok |-> a.ok /\ b.ok /\ c.ok /\ d.ok]

\* metric_emit_int_value
metric_emit_int_value(e, v, f0, f1) ==
    LET ckpt == e.buf
        f == emit_fields(e, f0, f1)
        a == emit_int(f.e, v)
        b == emit_string(a.e, <<"\n">>)
    IN  restore_ckpt(b.e, ckpt, f.ok /\ a.ok /\ b.ok)

\* metric_emit_str_value
metric_emit_str_value(e, v, f0, f1) ==
    LET ckpt == e.buf
        f == emit_fields(e, f0, f1)
        a == emit_quoted_string(f.e, v)
        b == emit_string(a.e, <<"\n">>)
    IN  restore_ckpt(b.e, ckpt, f.ok /\ a.ok /\ b.ok)

(***************************************************************************)
(* Metricfs: the metric, its four files, open, release and unregister.     *)
(*                                                                         *)
(* One metric is registered.  Openers run metric_open_helper's critical    *)
(* section (under big_mutex) in one step and the rest of the open in a     *)
(* second one; metric_unregister runs its critical section in one step and *)
(* debugfs_remove_recursive with metric_put in a second one.               *)
(***************************************************************************)
ENXIO == 6

\* the size of an annotations buffer (METRICFS_ANNOTATIONS_BUF_SIZE, 1 KiB in
\* the source)
AnnotationsBufSize == 32

\* the size of a fields buffer (METRICFS_FIELDS_BUF_SIZE, 1 KiB in the source)
FieldsBufSize == 32

METRICFS_VERSION_BUF_SIZE == 8

\* the threads that open and close the files
NOpeners == 2
Openers == 1..NOpeners

\* the files of a metric, in the order of m->inodes[]
MetricFiles == {"annotations", "fields", "values", "version"}

\* the buffer size each open handler passes to metric_open_helper
BufSize(f) ==
    CASE f = "annotations" -> AnnotationsBufSize
      [] f = "fields" -> FieldsBufSize
      [] f = "values" -> ValuesBufSize
      [] OTHER -> METRICFS_VERSION_BUF_SIZE

\* struct metric after metric_register; i_private[f] tells whether the
\* inode of file f still points to the metric; emit_fn is the list of rows
\* the callback emits; unregister is the position of the caller of
\* metric_unregister
Metric(description, is_cumulative, fname0, fname1, is_string, emit_fn) ==
    [description |-> description, is_cumulative |-> is_cumulative,
     fname0 |-> fname0, fname1 |-> fname1, is_string |-> is_string,
     emit_fn |-> emit_fn, refcnt |-> 1, freed |-> FALSE,
     i_private |-> [f \in MetricFiles |-> TRUE], unregister |-> "no"]

\* no metric is registered
NoMetric == [refcnt |-> 0, freed |-> FALSE,
             i_private |-> [f \in MetricFiles |-> FALSE], unregister |-> "no"]

\* struct module: its reference count, and whether try_module_get succeeds
Module(refcnt, live) == [refcnt |-> refcnt, live |-> live]
NoModule == Module(0, FALSE)

\* a struct file that is not open
ClosedFile == [pc |-> "closed"]
NoFiles == [t \in Openers |-> ClosedFile]

\* try_module_get
try_module_get(ow) == ow.live

\* module_put
module_put(ow) == [ow EXCEPT !.refcnt = @ - 1]

\* metric_module_get: 1 and both counts taken, or 0 and nothing taken
metric_module_get(mt, ow) ==
    IF ~try_module_get(ow) THEN [ret |-> 0, metric |-> mt, owner |-> ow]
    ELSE IF mt.refcnt = 0 THEN [ret |-> 0, metric |-> mt, owner |-> ow]
    ELSE [ret |-> 1, metric |-> [mt EXCEPT !.refcnt = @ + 1],
          owner |-> [ow EXCEPT !.refcnt = @ + 1]]

\* metric_put: kfree when the count reaches zero
metric_put(mt) == [mt EXCEPT !.refcnt = @ - 1, !.freed = (mt.refcnt = 1)]

\* metric_module_put
metric_module_put(mt, ow) == [metric |-> metric_put(mt), owner |-> module_put(ow)]

\* a variant of metricfs_generic_release that never puts
release_keeps_refs(mt, ow, f) == [oops |-> FALSE, metric |-> mt, owner |-> ow]

\* metricfs_generic_release after kvfree(p): the metric is read from
\* inode->i_private; when that is NULL, metric_module_put reads m->owner
\* through a null pointer and the kernel kills the caller there
metricfs_generic_release(mt, ow, f) ==
    IF ~mt.i_private[f] THEN [oops |-> TRUE, metric |-> mt, owner |-> ow]
    ELSE [oops |-> FALSE] @@ metric_module_put(mt, ow)

STR_DESCRIPTION == <<"D", "E", "S", "C", "R", "I", "P", "T", "I", "O", "N", " ">>
STR_CUMULATIVE == <<"C", "U", "M", "U", "L", "A", "T", "I", "V", "E", "\n">>
STR_value == <<"v", "a", "l", "u", "e", "\n">>
STR_str == <<"s", "t", "r">>
STR_int == <<"i", "n", "t">>

\* emit_string when the condition holds
emit_string_if(cond, r, s) ==
    IF cond THEN LET a == emit_string(r.e, s) IN [e |-> a.e, ok |-> r.ok /\ a.ok] ELSE r

\* the emissions of metricfs_annotations_open
annotations_emit(e, mt) ==
    LET a == emit_string(e, STR_DESCRIPTION)
        b == emit_quoted_string(a.e, mt.description)
        c == emit_string(b.e, <<"\n">>)
    IN  emit_string_if(mt.is_cumulative, [e |-> c.e, ok |-> a.ok /\ b.ok /\ c.ok],
                       STR_CUMULATIVE)

\* the emissions of metricfs_fields_open
fields_emit(e, mt) ==
    LET has0 == mt.fname0 # NoStr
        has1 == mt.fname1 # NoStr
        a == emit_string_if(has0, [e |-> e, ok |-> TRUE], mt.fname0)
        b == emit_string_if(has0, a, <<" ">>)
        c == emit_string_if(has1, b, mt.fname1)
        d == emit_string_if(has1, c, <<" ">>)
        f == emit_string_if(TRUE, d, STR_value)
        g == emit_string_if(has0, f, STR_str \o <<" ">>)
        h == emit_string_if(has1, g, STR_str \o <<" ">>)
    IN  emit_string_if(TRUE, h, (IF mt.is_string THEN STR_str ELSE STR_int) \o <<"\n">>)

\* the emission of metricfs_version_open
version_emit(e) ==
    LET r == snprintf(e.orig_buf, METRICFS_VERSION_BUF_SIZE, <<"1", "\n">>)
    IN  [e |-> [e EXCEPT !.orig_buf = r.dest, !.buf = r.pos],
         ok |-> ~(r.pos >= METRICFS_VERSION_BUF_SIZE)]

\* the callback of metricfs_values_open: it emits its rows one by one
RECURSIVE emit_fn(_, _)
emit_fn(e, rows) ==
    IF rows = <<>> THEN e
    ELSE LET r == Head(rows)
         IN  emit_fn(IF r.op = "emit_int" THEN metric_emit_int_value(e, r.v, r.f0, r.f1)
                     ELSE metric_emit_str_value(e, r.v, r.f0, r.f1), Tail(rows))

\* what an open handler does with its fresh buffer
open_emit(f, e, mt) ==
    CASE f = "annotations" -> annotations_emit(e, mt)
      [] f = "fields" -> fields_emit(e, mt)
      [] f = "values" -> [e |-> emit_fn(e, mt.emit_fn), ok |-> TRUE]
      [] OTHER -> version_emit(e)

\* a variant of the critical section of metric_unregister that clears nothing
keep_i_private(mt) == mt

\* the critical section of metric_unregister
clear_i_private(mt) == [mt EXCEPT !.i_private = [f \in MetricFiles |-> FALSE]]

\* the last call of a thread on a file and what it returned; uaf tells
\* whether it read the metric after kfree, oops whether the kernel killed
\* the caller inside the call (ret is then without meaning)
MCall(op, t, f, ret, uaf, oops) ==
    [op |-> op, t |-> t, file |-> f, ret |-> ret, uaf |-> uaf, oops |-> oops]

\* open(2), first step: the critical section of metric_open_helper.  A metric
\* that was freed is memory whose content is anything: the call may take
\* either way.
OpenHelper(t, f) ==
    /\ filp[t].pc = "closed"
    /\ LET g == metric_module_get(metric, owner)
       IN  \/ /\ ~metric.i_private[f] \/ (~metric.freed /\ g.ret = 0)
              /\ mres' = MCall("open", t, f, -ENXIO, FALSE, FALSE)
              /\ UNCHANGED <<metric, owner, filp>>
           \/ /\ metric.i_private[f] /\ ~metric.freed /\ g.ret = 1
              /\ metric' = g.metric
              /\ owner' = g.owner
              /\ filp' = [filp EXCEPT ![t] = [pc |-> "helper", file |-> f]]
              /\ mres' = MCall("metric_module_get", t, f, 1, FALSE, FALSE)
           \/ /\ metric.i_private[f] /\ metric.freed
              /\ \E got \in BOOLEAN :
                    /\ metric' = IF got THEN [metric EXCEPT !.refcnt = @ + 1] ELSE metric
                    /\ owner' = IF got THEN [owner EXCEPT !.refcnt = @ + 1] ELSE owner
                    /\ filp' = IF got THEN [filp EXCEPT ![t] = [pc |-> "helper", file |-> f]]
                               ELSE filp
                    /\ mres' = MCall(IF got THEN "metric_module_get" ELSE "open", t, f,
                                     IF got THEN 1 ELSE -ENXIO, TRUE, FALSE)
    /\ UNCHANGED <<xvars, heap, mem, held, opens, opener, res, emitter>>

\* open(2), second step: kvmalloc (which succeeds or not), the emissions of
\* the handler, and the release when the text does not fit
OpenFinish(t, alloc_ok) ==
    /\ filp[t].pc = "helper"
    /\ LET f == filp[t].file
           r == open_emit(f, metric_emitter(BufSize(f)), metric)
           put == metric_module_put(metric, owner)
           rel == metricfs_generic_release(metric, owner, f)
       IN  IF ~alloc_ok
           THEN /\ metric' = put.metric
                /\ owner' = put.owner
                /\ filp' = [filp EXCEPT ![t] = ClosedFile]
                /\ mres' = MCall("open", t, f, -ENOMEM, FALSE, FALSE) @@ [kvmalloc |-> FALSE]
           ELSE IF r.ok
           THEN /\ filp' = [filp EXCEPT ![t] =
                               [pc |-> "open", file |-> f,
                                private_data |-> [bytes_written |-> r.e.buf,
                                                  buf |-> r.e.orig_buf]]]
                /\ mres' = MCall("open", t, f, 0, FALSE, FALSE) @@ [kvmalloc |-> TRUE]
                /\ UNCHANGED <<xvars, metric, owner>>
           ELSE /\ metric' = rel.metric
                /\ owner' = rel.owner
                /\ filp' = [filp EXCEPT ![t] = ClosedFile]
                /\ mres' = MCall("open", t, f, -ENOMEM, FALSE, rel.oops)
                           @@ [kvmalloc |-> TRUE]
    /\ UNCHANGED <<xvars, heap, mem, held, opens, opener, res, emitter>>

\* close(2) of an open file: metricfs_generic_release
Close(t) ==
    /\ filp[t].pc = "open"
    /\ LET f == filp[t].file
           rel == metricfs_generic_release(metric, owner, f)
       IN  /\ metric' = rel.metric
           /\ owner' = rel.owner
           /\ filp' = [filp EXCEPT ![t] = ClosedFile]
           /\ mres' = MCall("release", t, f, 0, FALSE, rel.oops)
    /\ UNCHANGED <<xvars, heap, mem, held, opens, opener, res, emitter>>

\* metric_unregister, first step: the critical section
UnregisterClear ==
    /\ metric.unregister = "no"
    /\ metric' = [clear_i_private(metric) EXCEPT !.unregister = "cleared"]
    /\ mres' = [op |-> "unregister_clear"]
    /\ UNCHANGED <<xvars, heap, mem, held, opens, opener, res, emitter, owner, filp>>

\* metric_unregister, second step: debugfs_remove_recursive and metric_put
UnregisterPut ==
    /\ metric.unregister = "cleared"
    /\ metric' = [metric_put(metric) EXCEPT !.unregister = "done"]
    /\ mres' = [op |-> "metric_unregister"]
    /\ UNCHANGED <<xvars, heap, mem, held, opens, opener, res, emitter, owner, filp>>

\* delete_module of the owner: without references the module stops being
\* live and try_module_get fails from then on
DeleteModule ==
    /\ owner.live
    /\ owner.refcnt = 0
    /\ owner' = [owner EXCEPT !.live = FALSE]
    /\ mres' = [op |-> "delete_module"]
    /\ UNCHANGED <<xvars, heap, mem, held, opens, opener, res, emitter, metric, filp>>

\* escape_string(dest, s, size) called on the input Init has drawn, dest
\* being size bytes of fresh memory
EscapeString ==
    /\ mres.op = "input"
    /\ LET t == escape_string([i \in 1..mres.size |-> Uninit], mres.s, mres.size)
       IN  mres' = [op |-> "escape_string", s |-> mres.s, size |-> mres.size,
                    dest |-> t.dest, rc |-> t.pos]
    /\ UNCHANGED <<xvars, heap, mem, held, opens, opener, res, emitter, metric, owner, filp>>

\* the last call of metricfs: none yet
NoMCall == [op |-> "none"]

\* metricfs after boot: nothing registered, nothing open
MetricfsBoot ==
    /\ emitter = NoEmitter
    /\ metric = NoMetric
    /\ owner = NoModule
    /\ filp = NoFiles
    /\ mres = NoMCall

\* METRIC_EMIT_INT(e, v, f0, f1) in a callback; mres.dropped tells whether a
\* row of this callback was dropped
EmitInt(v, f0, f1) ==
    /\ emitter.size > 0
    /\ emitter' = metric_emit_int_value(emitter, v, f0, f1)
    /\ mres' = [op |-> "emit_int", v |-> Decimal(v), f0 |-> f0, f1 |-> f1,
                dropped |-> (mres.op # "none" /\ mres.dropped) \/ emitter'.buf = emitter.buf]
    /\ UNCHANGED <<xvars, heap, mem, held, opens, opener, res, metric, owner, filp>>

\* METRIC_EMIT_STR(e, v, f0, f1) in a callback
EmitStr(v, f0, f1) ==
    /\ emitter.size > 0
    /\ emitter' = metric_emit_str_value(emitter, v, f0, f1)
    /\ mres' = [op |-> "emit_str", v |-> v, f0 |-> f0, f1 |-> f1,
                dropped |-> (mres.op # "none" /\ mres.dropped) \/ emitter'.buf = emitter.buf]
    /\ UNCHANGED <<xvars, heap, mem, held, opens, opener, res, metric, owner, filp>>

(***************************************************************************)
(* The .schema file (fs/stats_fs/stats_fs.c, fs/stats_fs/inode.c).  A text *)
(* is a sequence of lines, a line a tuple of its words.  The FLAG and DESC *)
(* lines of a METRIC block are left out: no claim reads them.              *)
(***************************************************************************)
\* most calls of stats_fs_schema_open in a run
MaxSchemaOpens == 2

\* stats_fs_create_schema: the object behind the .schema file of a source.
\* kzalloc zeroes it and only str is assigned, so src is NULL.
stats_fs_create_schema == [src |-> NULL, str |-> <<"SCHEMA">>, str_size |-> 0]

RECURSIVE Concat(_)
\* the concatenation of a sequence of sequences
Concat(ss) == IF ss = <<>> THEN <<>> ELSE Head(ss) \o Concat(Tail(ss))

\* schema_label_const and one schema_label_fmt line per label, then "\n"
SchemaLabels(list) ==
    << <<"LABEL">> >> \o [i \in 1..Len(list) |-> <<list[i].key, list[i].value>>] \o << <<>> >>

\* schema_value_fmt for one descriptor
SchemaValue(val) == << <<"METRIC">>, <<"NAME", val.name>>, <<"TYPE", "INT">>, <<>> >>

\* the METRIC blocks of the bindings of list, descriptor by descriptor
SchemaValues(list) ==
    Concat([i \in 1..Len(list) |->
        Concat([j \in 1..Len(ValueArrays[list[i].values]) |->
            SchemaValue(ValueArrays[list[i].values][j])])])

\* what stats_fs_schema_open prints into schema_buf for source src
SchemaText(h, src) == SchemaLabels(h[src].labels_head) \o SchemaValues(h[src].values_head)

\* stats_fs_schema_open on the object schema of an inode.  schema_buf is
\* allocated first; &schema->src->refcount is then read through schema->src,
\* and a NULL schema->src makes that a NULL pointer dereference.
stats_fs_schema_open(h, schema) ==
    IF schema.src = NULL
    THEN [oops |-> TRUE, err |-> 0, heap |-> h, schema |-> schema,
          private_data |-> NULL]
    ELSE LET g == kref_get_unless_zero(h, schema.src)
             text == SchemaText(h, schema.src)
             opened == [schema EXCEPT !.str = text, !.str_size = Len(text)]
         IN  IF ~g.ok
             THEN [oops |-> FALSE, err |-> -ENOENT, heap |-> h, schema |-> schema,
                   private_data |-> NULL]
             ELSE [oops |-> FALSE, err |-> 0, heap |-> g.heap, schema |-> opened,
                   private_data |-> opened]

\* open(2) of the .schema file of s.  The buffer of a call that does not
\* return stays allocated.
SchemaOpen(s) ==
    /\ heap[s].alive
    /\ heap[s].schema_file
    /\ schema_bufs < MaxSchemaOpens
    /\ LET r == stats_fs_schema_open(heap, stats_fs_create_schema)
       IN  /\ heap' = r.heap
           /\ schema_bufs' = schema_bufs + 1
           /\ res' = Res("schema_open", s, NULL, NullVal, "", NULL, r.err, NoRet)
                     @@ [oops |-> r.oops, private_data |-> r.private_data]
    /\ UNCHANGED <<mvars, mem, held, opens, opener, reg, rwsem, thr>>

(***************************************************************************)
(* metric_register and its error path (kernel/metricfs.c).  reg.big_mutex  *)
(* names the holder of big_mutex, reg.created counts the files created so  *)
(* far (m->inodes[k] is NULL for every k >= created), reg.ret is "m" or    *)
(* "NULL" once the call has returned.                                      *)
(***************************************************************************)
\* the files in the order metric_register creates them
FileOrder == <<"annotations", "fields", "values", "version">>

\* metric_register up to and including mutex_lock(&big_mutex): the metric is
\* allocated, its directory created, its count set to 1
RegisterBegin(mt) ==
    /\ reg.pc = "idle"
    /\ reg.big_mutex = "unlocked"
    /\ metric = NoMetric
    /\ metric' = [mt EXCEPT !.i_private = [f \in MetricFiles |-> FALSE]]
    /\ reg' = [reg EXCEPT !.pc = "create", !.big_mutex = "register"]
    /\ mres' = [op |-> "metric_register"]
    /\ UNCHANGED <<heap, mem, held, opens, opener, res, emitter, owner, filp,
                   schema_bufs, rwsem, thr>>

\* One step of the thread inside metric_register.
\*   create:     metricfs_create_file of the next file, which succeeds (ok)
\*               or returns NULL; on NULL, goto done
\*   done:       with t set, mutex_unlock and return m; with t NULL, the
\*               call of metric_unregister, whose first statement is
\*               mutex_lock(&big_mutex)
\*   mutex_lock: the thread sleeps until big_mutex is free; the rest of
\*               metric_unregister follows, then m = NULL, mutex_unlock and
\*               return
RegisterStep(ok) ==
    /\ reg.pc \in {"create", "done", "mutex_lock"}
    /\ reg.pc # "create" => ok
    /\ reg.pc = "mutex_lock" => reg.big_mutex = "unlocked"
    /\ LET k == reg.created + 1
           cleared == [metric_put(clear_i_private(metric)) EXCEPT !.unregister = "done"]
       IN  CASE reg.pc = "create" /\ ok ->
                  /\ metric' = [metric EXCEPT !.i_private[FileOrder[k]] = TRUE]
                  /\ reg' = [reg EXCEPT !.created = k,
                                        !.pc = IF k = Len(FileOrder) THEN "done" ELSE "create"]
             [] reg.pc = "create" /\ ~ok ->
                  /\ reg' = [reg EXCEPT !.failed = TRUE, !.pc = "done"]
                  /\ UNCHANGED metric
             [] reg.pc = "done" /\ ~reg.failed ->
                  /\ reg' = [reg EXCEPT !.big_mutex = "unlocked", !.pc = "returned", !.ret = "m"]
                  /\ UNCHANGED metric
             [] reg.pc = "done" /\ reg.failed ->
                  /\ reg' = [reg EXCEPT !.pc = "mutex_lock"]
                  /\ UNCHANGED metric
             [] reg.pc = "mutex_lock" /\ reg.created < Len(FileOrder) ->
                  \* m->inodes[created]->i_private through a NULL inode
                  /\ reg' = [reg EXCEPT !.oops = TRUE, !.pc = "returned", !.big_mutex = "register"]
                  /\ UNCHANGED metric
             [] OTHER ->
                  /\ reg' = [reg EXCEPT !.pc = "returned", !.ret = "NULL", !.big_mutex = "unlocked"]
                  /\ metric' = cleared
    /\ mres' = [op |-> "metric_register"]
    /\ UNCHANGED <<heap, mem, held, opens, opener, res, emitter, owner, filp,
                   schema_bufs, rwsem, thr>>

(***************************************************************************)
(* metricfs_values_open step by step, with a callback that emits any rows, *)
(* and the reads of the open file (kernel/metricfs.c).                     *)
(***************************************************************************)
\* metricfs_values_open after metric_open_helper, up to the call of the
\* callback: the emitter starts at the beginning of the fresh buffer
ValuesOpenBegin(t) ==
    /\ filp[t].pc = "helper"
    /\ filp[t].file = "values"
    /\ emitter = NoEmitter
    /\ emitter' = metric_emitter(ValuesBufSize)
    /\ filp' = [filp EXCEPT ![t].pc = "callback"]
    /\ mres' = NoMCall
    /\ UNCHANGED <<heap, mem, held, opens, opener, res, metric, owner, xvars>>

\* the callback has returned: p->bytes_written = e.buf - e.orig_buf
ValuesOpenReturn(t) ==
    /\ filp[t].pc = "callback"
    /\ filp' = [filp EXCEPT ![t] =
                   [pc |-> "open", file |-> "values", f_pos |-> 0,
                    private_data |-> [bytes_written |-> emitter.buf,
                                      buf |-> emitter.orig_buf]]]
    /\ emitter' = NoEmitter
    /\ mres' = MCall("open", t, "values", 0, FALSE, FALSE) @@ [kvmalloc |-> TRUE]
    /\ UNCHANGED <<heap, mem, held, opens, opener, res, metric, owner, xvars>>

\* simple_read_from_buffer(to, count, ppos, from, available) of fs/libfs.c
\* when the copy to user space succeeds: the bytes copied and the new position
simple_read_from_buffer(count, pos, from, available) ==
    IF pos < 0 THEN [ret |-> -EINVAL, to |-> <<>>, pos |-> pos]
    ELSE IF pos >= available \/ count = 0 THEN [ret |-> 0, to |-> <<>>, pos |-> pos]
    ELSE LET n == Min(count, available - pos)
         IN  [ret |-> n, to |-> SubSeq(from, pos + 1, pos + n), pos |-> pos + n]

\* read(2) of cnt bytes from the open values file of t: metricfs_generic_read
GenericRead(t, cnt) ==
    /\ filp[t].pc = "open"
    /\ "f_pos" \in DOMAIN filp[t]
    /\ LET p == filp[t].private_data
           r == simple_read_from_buffer(cnt, filp[t].f_pos, p.buf, p.bytes_written)
       IN  /\ filp' = [filp EXCEPT ![t].f_pos = r.pos]
           /\ mres' = [op |-> "read", t |-> t, ret |-> r.ret, to |-> r.to,
                       pos |-> filp[t].f_pos]
    /\ UNCHANGED <<heap, mem, held, opens, opener, res, emitter, metric, owner, xvars>>

(***************************************************************************)
(* Threads and semaphores (fs/stats_fs/stats_fs.c).  A call of a thread    *)
(* runs in steps: a step is the acquisition of one semaphore, on which the *)
(* thread waits until it is free, together with the code up to the next    *)
(* acquisition, or the code that ends with a release.  thr[t].stack holds  *)
(* the frames of the recursive functions the thread is inside, innermost   *)
(* last; thr[t].snaps records, for a read that asks for it, what an        *)
(* uninterrupted read would have returned in each state since the call.    *)
(***************************************************************************)
\* how thread t holds the semaphore of source s
HeldMode(rw, t, s) ==
    IF rw[s].writer = t THEN "w" ELSE IF t \in rw[s].readers THEN "r" ELSE "none"

\* a semaphore that lets readers in while a writer holds it
rwsem_ignores_writer(rw, s) == TRUE

\* down_read returns at once: no writer holds the semaphore
CanRead(rw, s) == rw[s].writer = 0

\* down_write returns at once: nobody holds the semaphore
CanWrite(rw, s) == rw[s].writer = 0 /\ rw[s].readers = {}

down_read(rw, t, s) == [rw EXCEPT ![s].readers = @ \cup {t}]
up_read(rw, t, s) == [rw EXCEPT ![s].readers = @ \ {t}]
down_write(rw, t, s) == [rw EXCEPT ![s].writer = t]
up_write(rw, t, s) == [rw EXCEPT ![s].writer = 0]

\* a thread inside call op
Thread(pc, op, src, sub, val, base, track) ==
    [pc |-> pc, op |-> op, src |-> src, sub |-> sub, val |-> val, base |-> base,
     ref |-> "", stack |-> <<>>, loaded |-> <<>>,
     agg |-> [sum |-> Zero64, count |-> 0, count_zero |-> 0, max |-> Zero64,
              min |-> Zero64],
     err |-> 0, ret |-> Zero64,
     track |-> track, snaps |-> {}]

\* the threads after a step that leaves them as th, the heap as h and the
\* memory as m: every read that records it gets the result of an
\* uninterrupted read in the new state
Observed(th, h, m) ==
    [u \in Threads |->
        IF th[u].pc # "idle" /\ th[u].track
        THEN [th[u] EXCEPT !.snaps = @ \cup {stats_fs_source_get_value(h, m, th[u].src, th[u].val)}]
        ELSE th[u]]

\* the call a thread returns from, as res records it
Returned(t, th, err, ret) ==
    Res(th.op, th.src, th.sub, th.val, "", th.base, err, ret)
    @@ [t |-> t]

\* thread t calls op: stats_fs_source_get_value or stats_fs_source_clear on
\* (s, v), stats_fs_source_revoke(s) or stats_fs_source_add_values(s, a, b).
\* The caller holds a reference to s.
Call(t, op, s, v, b, track) ==
    /\ thr[t].pc = "idle"
    /\ heap[s].alive
    /\ held[s] > 0
    /\ op = "add_values" =>
           HasBinding(heap, s, v.arr, b) \/ Len(heap[s].values_head) < MaxBindings
    /\ thr' = Observed([thr EXCEPT ![t] = Thread("called", op, s, NULL, v, b, track)],
                       heap, mem)
    /\ UNCHANGED <<heap, mem, held, opens, opener, res, mvars, schema_bufs, reg, rwsem>>

\* the bases search_all_simple_values or set_all_simple_values finds in the
\* binding list of src, in list order
LoadBases(h, src, ref) ==
    LET list == h[src].values_head
        hit == SelectSeq([i \in 1..Len(list) |-> i], LAMBDA i : Contributes(list[i], ref))
    IN  [k \in 1..Len(hit) |-> list[hit[k]].base_addr]

\* stats_fs_source_get_value and stats_fs_source_clear from down_read to the
\* decision between the binding's own field and the walk; for the walk, to
\* the bindings of the source itself
WalkEnter(t) ==
    /\ thr[t].pc = "called"
    /\ thr[t].op \in {"get_value", "clear"}
    /\ CanRead(rwsem, thr[t].src)
    /\ rwsem' = down_read(rwsem, t, thr[t].src)
    /\ LET s == thr[t].src
           i == search_value_in_source(heap, s, thr[t].val)
           src_entry == heap[s].values_head[i]
           th == IF i = 0 THEN [thr[t] EXCEPT !.pc = "return", !.err = -ENOENT]
                 ELSE IF src_entry.base_addr # NULL
                 THEN [thr[t] EXCEPT !.pc = "simple", !.loaded = <<src_entry.base_addr>>]
                 ELSE [thr[t] EXCEPT !.pc = "deref", !.ref = src_entry.values,
                                     !.agg = init_aggregate_value(Deref(thr[t].val)),
                                     !.stack = <<[src |-> s, i |-> 1]>>,
                                     !.loaded = LoadBases(heap, s, src_entry.values)]
       IN  thr' = Observed([thr EXCEPT ![t] = th], heap, mem)
    /\ UNCHANGED <<heap, mem, held, opens, opener, res, mvars, schema_bufs, reg>>

RECURSIVE AggLoaded(_, _, _, _, _)
\* the loop of search_all_simple_values over the bases found
AggLoaded(m, loaded, val, agg, i) ==
    IF i > Len(loaded) THEN agg
    ELSE AggLoaded(m, loaded, val,
                   AggUpdate(agg, val, get_simple_value(m[loaded[i]], val)), i + 1)

RECURSIVE ClearLoaded(_, _, _, _)
\* the loop of set_all_simple_values over the bases found
ClearLoaded(m, loaded, val, i) ==
    IF i > Len(loaded) THEN m
    ELSE ClearLoaded([m EXCEPT ![loaded[i]] = clear_simple_value(@, val)], loaded, val, i + 1)

\* the accesses to the backing objects: get_simple_value or
\* clear_simple_value at the bases found
WalkDeref(t) ==
    /\ thr[t].pc \in {"simple", "deref"}
    /\ LET val == Deref(thr[t].val)
           m2 == IF thr[t].op = "clear" THEN ClearLoaded(mem, thr[t].loaded, val, 1) ELSE mem
           th == IF thr[t].pc = "simple"
                 THEN [thr[t] EXCEPT !.pc = "return", !.loaded = <<>>,
                          !.ret = IF thr[t].op = "clear" THEN NoRet
                                  ELSE get_simple_value(mem[thr[t].loaded[1]], val)]
                 ELSE [thr[t] EXCEPT !.pc = "iter", !.loaded = <<>>,
                          !.agg = IF thr[t].op = "clear" THEN @
                                  ELSE AggLoaded(mem, thr[t].loaded, val, @, 1)]
       IN  /\ mem' = m2
           /\ thr' = Observed([thr EXCEPT ![t] = th], heap, m2)
    /\ UNCHANGED <<heap, held, opens, opener, res, mvars, schema_bufs, reg, rwsem>>

\* the innermost frame of thread t
Top(t) == thr[t].stack[Len(thr[t].stack)]

\* a walk that reads the bindings of the next subordinate without down_read
walk_descend_unlocked(t) ==
    /\ thr[t].pc = "iter"
    /\ Top(t).i <= Len(heap[Top(t).src].subordinates_head)
    /\ LET subordinate == heap[Top(t).src].subordinates_head[Top(t).i]
       IN  thr' = Observed([thr EXCEPT ![t].pc = "deref",
                                ![t].stack = Append(@, [src |-> subordinate, i |-> 1]),
                                ![t].loaded = LoadBases(heap, subordinate, thr[t].ref)],
                           heap, mem)
    /\ UNCHANGED <<heap, mem, held, opens, opener, res, mvars, schema_bufs, reg, rwsem>>

\* do_recursive_aggregation and do_recursive_clean: down_read of the next
\* subordinate and the bindings of that subordinate
WalkDescend(t) ==
    /\ thr[t].pc = "iter"
    /\ Top(t).i <= Len(heap[Top(t).src].subordinates_head)
    /\ LET subordinate == heap[Top(t).src].subordinates_head[Top(t).i]
       IN  /\ CanRead(rwsem, subordinate)
           /\ rwsem' = down_read(rwsem, t, subordinate)
           /\ thr' = Observed([thr EXCEPT ![t].pc = "deref",
                                  ![t].stack = Append(@, [src |-> subordinate, i |-> 1]),
                                  ![t].loaded = LoadBases(heap, subordinate, thr[t].ref)],
                              heap, mem)
    /\ UNCHANGED <<heap, mem, held, opens, opener, res, mvars, schema_bufs, reg>>

\* the subordinates of the innermost frame are done: up_read of its source
\* and back to the loop of the caller
WalkAscend(t) ==
    /\ thr[t].pc = "iter"
    /\ Len(thr[t].stack) > 1
    /\ Top(t).i > Len(heap[Top(t).src].subordinates_head)
    /\ rwsem' = up_read(rwsem, t, Top(t).src)
    /\ LET n == Len(thr[t].stack) - 1
       IN  thr' = Observed([thr EXCEPT ![t].stack =
                                  [SubSeq(@, 1, n) EXCEPT ![n].i = @ + 1]],
                           heap, mem)
    /\ UNCHANGED <<heap, mem, held, opens, opener, res, mvars, schema_bufs, reg>>

\* store_final_value when the subtree was walked, up_read and return
WalkReturn(t) ==
    /\ \/ thr[t].pc = "return"
       \/ /\ thr[t].pc = "iter"
          /\ Len(thr[t].stack) = 1
          /\ Top(t).i > Len(heap[Top(t).src].subordinates_head)
    /\ thr[t].op \in {"get_value", "clear"}
    /\ rwsem' = up_read(rwsem, t, thr[t].src)
    /\ res' = Returned(t, thr[t], thr[t].err,
                       IF thr[t].pc = "iter" /\ thr[t].op = "get_value"
                       THEN store_final_value(thr[t].agg, Deref(thr[t].val), Zero64)
                       ELSE thr[t].ret)
    /\ thr' = Observed([thr EXCEPT ![t] = IdleThread], heap, mem)
    /\ UNCHANGED <<heap, mem, held, opens, opener, mvars, schema_bufs, reg>>

\* down_write on the source of the call
WriteLock(t) ==
    /\ thr[t].pc = "called"
    /\ thr[t].op \in {"revoke", "add_values"}
    /\ CanWrite(rwsem, thr[t].src)
    /\ rwsem' = down_write(rwsem, t, thr[t].src)
    /\ thr' = Observed([thr EXCEPT ![t].pc = "locked"], heap, mem)
    /\ UNCHANGED <<heap, mem, held, opens, opener, res, mvars, schema_bufs, reg>>

\* stats_fs_source_revoke and stats_fs_source_add_values after down_write:
\* the body, up_write and return
WriteReturn(t) ==
    /\ thr[t].pc = "locked"
    /\ thr[t].op \in {"revoke", "add_values"}
    /\ LET r == IF thr[t].op = "revoke"
                THEN [err |-> 0, heap |-> stats_fs_source_revoke(heap, thr[t].src)]
                ELSE stats_fs_source_add_values(heap, thr[t].src, thr[t].val.arr, thr[t].base)
       IN  /\ heap' = r.heap
           /\ res' = Returned(t, thr[t], r.err, NoRet)
           /\ thr' = Observed([thr EXCEPT ![t] = IdleThread], r.heap, mem)
    /\ rwsem' = up_write(rwsem, t, thr[t].src)
    /\ UNCHANGED <<mem, held, opens, opener, mvars, schema_bufs, reg>>

(***************************************************************************)
(* The calls that change the tree and the files, one step per semaphore    *)
(* operation.  The stack of a thread holds one frame per function that has *)
(* not returned: the function, its source, the subordinate it works on,    *)
(* the position of its loop over the subordinates, whether it releases     *)
(* the semaphore of its source when it returns, and where it stands.       *)
(***************************************************************************)
Frame(fn, src, sub, i, lock, at) ==
    [fn |-> fn, src |-> src, sub |-> sub, i |-> i, lock |-> lock, at |-> at]

TreeOps == {"register", "add_subordinate", "remove_subordinate", "put", "release"}

\* the links a caller cannot count on being absent: those other threads
\* have been asked to make and have not made yet, and those a call of
\* another thread that has not returned has cut
PendingLinks(t) ==
    UNION {IF thr[u].pc # "run" THEN {}
           ELSE {<<thr[u].src, thr[u].sub>> : x \in {x \in {1} :
                    thr[u].op = "add_subordinate" /\ thr[u].stack[1].at = "lock"}}
                \cup {<<thr[u].stack[i].src, thr[u].stack[i].sub>> :
                         i \in {i \in DOMAIN thr[u].stack :
                                   thr[u].stack[i].fn = "remove_subordinate_locked"}} :
           u \in Threads \ {t}}

\* the heap with these links in place
WithLinks(h, links) ==
    [s \in Sources |->
        [h[s] EXCEPT !.subordinates_head =
            LET new == {l[2] : l \in {l \in links : l[1] = s}}
            IN  @ \o CHOOSE q \in [1..Cardinality(new) -> new] : Range(q) = new]]

\* thread t calls stats_fs_source_register(s), stats_fs_source_add_subordinate(s, c),
\* stats_fs_source_remove_subordinate(s, c), stats_fs_source_put(s), or closes
\* a value file of s.  The caller holds a reference to the sources it names
\* and drops the one it puts; the callers keep the sources a tree.
CallTree(t, op, s, c) ==
    /\ thr[t].pc = "idle"
    /\ op \in TreeOps
    /\ heap[s].alive
    /\ IF op = "release" THEN opens[s] > 0 ELSE held[s] > 0
    /\ op \in {"add_subordinate", "remove_subordinate"} => heap[c].alive /\ held[c] > 0
    /\ op \in {"register", "put", "release"} => c = NULL
    /\ op = "add_subordinate" =>
           LET h == WithLinks(heap, PendingLinks(t))
           IN  /\ Unlinked(h, c)
               /\ s \notin Subtree(h, c)
               /\ Len(heap[s].labels_head) + Len(heap[c].labels_head) <= MaxLabels
    /\ op = "put" =>
           \A u \in Threads \ {t} : thr[u].pc # "idle" => s \notin {thr[u].src, thr[u].sub}
    /\ held' = IF op = "put" THEN [held EXCEPT ![s] = @ - 1] ELSE held
    /\ opens' = IF op = "release" THEN [opens EXCEPT ![s] = @ - 1] ELSE opens
    /\ thr' = Observed(
           [thr EXCEPT ![t] =
               [Thread("run", op, s, c, NullVal, NULL, FALSE) EXCEPT
                   !.stack = << IF op \in {"put", "release"}
                                THEN Frame("put", s, NULL, 1, FALSE, "dec")
                                ELSE Frame(op, s, c, 1, TRUE, "lock") >>]],
           heap, mem)
    /\ UNCHANGED <<heap, mem, opener, res, mvars, schema_bufs, reg, rwsem>>

\* the part of stats_fs_create_files_recursive_locked before its loop: the
\* directory and the .schema file when source has none, and the value files
create_dir_and_files(h, source) ==
    stats_fs_create_files_locked(
        IF h[source].source_dentry = NULL
        THEN [h EXCEPT ![source].source_dentry = 1, ![source].schema_file = TRUE]
        ELSE h,
        source)

\* the end of stats_fs_source_remove_files_locked: the directory goes
remove_dir(h, src) ==
    [h EXCEPT ![src].source_dentry = NULL, ![src].schema_file = FALSE, ![src].vfiles = {}]

\* stats_fs_source_add_subordinate up to the test of the directory
link_subordinate(h, source, sub) ==
    LET h1 == stats_fs_source_get(h, sub)
        h2 == [h1 EXCEPT ![source].subordinates_head = list_add(sub, @)]
    IN  [h2 EXCEPT ![sub].labels_head = CopyLabels(h2, source, sub)]

\* the frame of stats_fs_source_remove_files_locked(src): nothing to do
\* without a directory
RemoveFilesFrame(h, src, lock) ==
    Frame("remove_files", src, NULL, 1, lock,
          IF h[src].source_dentry = NULL THEN "done" ELSE "loop")

Pop(stack) == SubSeq(stack, 1, Len(stack) - 1)
SetTop(stack, f) == [stack EXCEPT ![Len(stack)] = f]

\* the subordinate the loop of the innermost frame stands at, NULL past the end
AtSub(h, f) ==
    IF f.i <= Len(h[f.src].subordinates_head) THEN h[f.src].subordinates_head[f.i] ELSE NULL

\* the semaphore the next step of thread t takes: 0 when it takes none
Wants(t) ==
    IF thr[t].pc = "called" THEN thr[t].src
    ELSE IF thr[t].pc = "iter" THEN AtSub(heap, Top(t))
    ELSE IF thr[t].pc # "run" THEN NULL
    ELSE LET f == Top(t)
         IN  CASE f.at = "lock" -> f.src
               [] f.fn = "create_files" /\ f.at = "down_write" /\ heap[f.sub].alive -> f.sub
               [] f.fn = "remove_files" /\ f.at = "loop" -> AtSub(heap, f)
               [] f.fn = "remove_subordinate_locked" /\ f.at = "remove_files" -> f.sub
               [] OTHER -> NULL

\* the semaphores thread t holds
HeldBy(t) == {s \in Sources : HeldMode(rwsem, t, s) # "none"}

\* the links of the tree, and the links thread t has cut with list_del_init
\* in a call of stats_fs_source_remove_subordinate_locked that has not returned
Links(t) ==
    {<<p, c>> \in Sources \X Sources : c \in Range(heap[p].subordinates_head)}
    \cup (IF thr[t].pc # "run" THEN {}
          ELSE {<<thr[t].stack[i].src, thr[t].stack[i].sub>> :
                   i \in {i \in DOMAIN thr[t].stack :
                             thr[t].stack[i].fn = "remove_subordinate_locked"}})

RECURSIVE Below(_, _)
\* s and the sources under s
Below(links, s) == {s} \cup UNION {Below(links, l[2]) : l \in {l \in links : l[1] = s}}

\* the state after a step of thread t that leaves its stack as stack, the
\* heap as h and the semaphores as rw; the call returns, with no value, when
\* no frame is left
Run(t, stack, h, rw) ==
    /\ heap' = h
    /\ rwsem' = rw
    /\ thr' = Observed(IF stack = <<>> THEN [thr EXCEPT ![t] = IdleThread]
                        ELSE [thr EXCEPT ![t].stack = stack],
                        h, mem)
    /\ UNCHANGED <<mem, held, opens, opener, res, mvars, schema_bufs, reg>>

\* the innermost function returns: up_write when it took the semaphore
Unwind(t) ==
    LET f == Top(t)
    IN  Run(t, Pop(thr[t].stack), heap,
            IF f.lock THEN up_write(rwsem, t, f.src) ELSE rwsem)

\* down_write(&source->rwsem) of stats_fs_source_register,
\* stats_fs_source_add_subordinate and stats_fs_source_remove_subordinate,
\* and what they do before the next semaphore operation
LockSource(t) ==
    /\ thr[t].pc = "run"
    /\ Top(t).fn \in {"register", "add_subordinate", "remove_subordinate"}
    /\ Top(t).at = "lock"
    /\ CanWrite(rwsem, Wants(t))
    /\ LET f == Top(t)
           rw == down_write(rwsem, t, f.src)
           hold == [f EXCEPT !.at = "unlock"]
       IN  CASE f.fn = "register" ->
                    Run(t, <<Frame("create_files", f.src, NULL, 1, TRUE, "loop")>>,
                        create_dir_and_files(heap, f.src), rw)
             [] f.fn = "add_subordinate" ->
                    LET h == link_subordinate(heap, f.src, f.sub)
                    IN  IF h[f.src].source_dentry # NULL
                        THEN Run(t, <<hold, Frame("create_files", f.sub, NULL, 1, FALSE, "loop")>>,
                                 create_dir_and_files(h, f.sub), rw)
                        ELSE Run(t, <<hold>>, h, rw)
             [] f.fn = "remove_subordinate" ->
                    LET i == IndexOf(heap[f.src].subordinates_head, f.sub)
                    IN  IF i = 0 THEN Run(t, <<hold>>, heap, rw)
                        ELSE Run(t, <<hold, Frame("remove_subordinate_locked", f.src, f.sub, 1, FALSE,
                                                  "remove_files")>>,
                                 [heap EXCEPT ![f.src].subordinates_head = list_del(@, i)], rw)

\* up_write(&source->rwsem) and return of the three
UnlockSource(t) ==
    /\ thr[t].pc = "run"
    /\ Top(t).at = "unlock"
    /\ Unwind(t)

\* the loop of stats_fs_create_files_recursive_locked: the next subordinate
\* is read from the list and its directory is tested; then down_write of a
\* subordinate that has no directory, and the call for it.  A subordinate
\* that was freed in between is an access to freed memory.
CreateFilesLoop(t) ==
    /\ thr[t].pc = "run"
    /\ Top(t).fn = "create_files"
    /\ LET f == Top(t)
           child == AtSub(heap, f)
       IN  CASE f.at = "loop" /\ child = NULL -> Unwind(t)
             [] f.at = "loop" /\ child # NULL ->
                    Run(t, SetTop(thr[t].stack,
                                  IF heap[child].source_dentry = NULL
                                  THEN [f EXCEPT !.sub = child, !.at = "down_write"]
                                  ELSE [f EXCEPT !.i = @ + 1]),
                        heap, rwsem)
             [] f.at = "down_write" /\ ~heap[f.sub].alive ->
                    /\ thr' = Observed([thr EXCEPT ![t].pc = "oops"], heap, mem)
                    /\ UNCHANGED <<heap, mem, held, opens, opener, res, mvars, schema_bufs,
                                   reg, rwsem>>
             [] f.at = "down_write" /\ heap[f.sub].alive ->
                    /\ CanWrite(rwsem, Wants(t))
                    /\ Run(t, Append(SetTop(thr[t].stack,
                                            [f EXCEPT !.i = @ + 1, !.sub = NULL, !.at = "loop"]),
                                     Frame("create_files", f.sub, NULL, 1, TRUE, "loop")),
                           create_dir_and_files(heap, f.sub), down_write(rwsem, t, f.sub))

\* stats_fs_source_remove_files_locked: stats_fs_source_remove_files of the
\* next subordinate, which starts with down_write, or the end of the loop
RemoveFilesLoop(t) ==
    /\ thr[t].pc = "run"
    /\ Top(t).fn = "remove_files"
    /\ LET f == Top(t)
           child == AtSub(heap, f)
       IN  IF f.at = "done" THEN Unwind(t)
           ELSE IF child = NULL
           THEN Run(t, SetTop(thr[t].stack, [f EXCEPT !.at = "done"]),
                    remove_dir(heap, f.src), rwsem)
           ELSE /\ CanWrite(rwsem, Wants(t))
                /\ Run(t, Append(SetTop(thr[t].stack, [f EXCEPT !.i = @ + 1]),
                                 RemoveFilesFrame(heap, child, TRUE)),
                       heap, down_write(rwsem, t, child))

\* stats_fs_source_remove_subordinate_locked after list_del_init:
\* stats_fs_source_remove_files(sub), then stats_fs_source_put(sub)
RemoveSubordinateLocked(t) ==
    /\ thr[t].pc = "run"
    /\ Top(t).fn = "remove_subordinate_locked"
    /\ LET f == Top(t)
       IN  CASE f.at = "remove_files" ->
                    /\ CanWrite(rwsem, Wants(t))
                    /\ Run(t, Append(SetTop(thr[t].stack, [f EXCEPT !.at = "put"]),
                                     RemoveFilesFrame(heap, f.sub, TRUE)),
                           heap, down_write(rwsem, t, f.sub))
             [] f.at = "put" ->
                    Run(t, Append(SetTop(thr[t].stack, [f EXCEPT !.at = "done"]),
                                  Frame("put", f.sub, NULL, 1, FALSE, "dec")),
                        heap, rwsem)
             [] f.at = "done" -> Unwind(t)

\* kref_put_rwsem: the count drops when it is not 1; otherwise down_write,
\* and the release function runs when the count drops to 0 under the semaphore
KrefPutRwsem(t) ==
    /\ thr[t].pc = "run"
    /\ Top(t).fn = "put"
    /\ LET f == Top(t)
       IN  CASE f.at = "dec" ->
                    IF heap[f.src].refcount > 1
                    THEN Run(t, Pop(thr[t].stack), [heap EXCEPT ![f.src].refcount = @ - 1], rwsem)
                    ELSE Run(t, SetTop(thr[t].stack, [f EXCEPT !.at = "lock"]), heap, rwsem)
             [] f.at = "lock" ->
                    /\ CanWrite(rwsem, Wants(t))
                    /\ IF heap[f.src].refcount = 1
                       THEN Run(t, SetTop(thr[t].stack,
                                          Frame("destroy", f.src, NULL, 1, TRUE, "subordinates")),
                                [heap EXCEPT ![f.src].refcount = 0, ![f.src].values_head = <<>>],
                                down_write(rwsem, t, f.src))
                       ELSE Run(t, Pop(thr[t].stack), [heap EXCEPT ![f.src].refcount = @ - 1],
                                rwsem)

\* stats_fs_source_destroy after the bindings were freed: the subordinates
\* one by one, the labels, the files, up_write and kfree
Destroy(t) ==
    /\ thr[t].pc = "run"
    /\ Top(t).fn = "destroy"
    /\ LET f == Top(t)
           list == heap[f.src].subordinates_head
       IN  CASE f.at = "subordinates" /\ list # <<>> ->
                    Run(t, Append(thr[t].stack,
                                  Frame("remove_subordinate_locked", f.src, Head(list), 1, FALSE,
                                        "remove_files")),
                        [heap EXCEPT ![f.src].subordinates_head = list_del(@, 1)], rwsem)
             [] f.at = "subordinates" /\ list = <<>> ->
                    LET h == [heap EXCEPT ![f.src].labels_head = <<>>]
                    IN  Run(t, Append(SetTop(thr[t].stack, [f EXCEPT !.at = "free"]),
                                      RemoveFilesFrame(h, f.src, FALSE)),
                            h, rwsem)
             [] f.at = "free" ->
                    Run(t, Pop(thr[t].stack), [heap EXCEPT ![f.src] = FreeSrc],
                        up_write(rwsem, t, f.src))

\* an access of a step to the binding list, the subordinate list, the label
\* list or the directory of source s: the place in the code, whether it
\* writes, and how the thread holds the semaphore of s at that moment
Access(site, s, write, mode) == [site |-> site, src |-> s, write |-> write, mode |-> mode]

\* the accesses the next step of thread t makes
Footprint(t) ==
    LET th == thr[t]
        mode(s) == HeldMode(rwsem, t, s)
    IN  CASE th.pc = "called" /\ th.op \in {"get_value", "clear"} ->
                 {Access("search_value_in_source", th.src, FALSE, "r")}
          [] th.pc = "locked" ->
                 {Access(th.op, th.src, TRUE, mode(th.src))}
          [] th.pc = "iter" ->
                 {Access("subordinates", Top(t).src, FALSE, mode(Top(t).src))}
                 \cup (IF Wants(t) = NULL THEN {}
                       ELSE {Access("subordinate values", Wants(t), FALSE, "r")})
          [] th.pc = "run" ->
                 LET f == Top(t)
                     child == AtSub(heap, f)
                 IN  CASE f.at = "lock" /\ f.fn = "register" ->
                              {Access("create_files", f.src, TRUE, "w")}
                       [] f.at = "lock" /\ f.fn = "add_subordinate" ->
                              {Access("list_add", f.src, TRUE, "w"),
                               Access("copy labels", f.src, FALSE, "w"),
                               Access("copy labels to sub", f.sub, TRUE, mode(f.sub))}
                              \cup (IF heap[f.src].source_dentry = NULL THEN {}
                                    ELSE {Access("create_files of sub", f.sub, TRUE, mode(f.sub))})
                       [] f.at = "lock" /\ f.fn = "remove_subordinate" ->
                              {Access("list_del_init", f.src, TRUE, "w")}
                       [] f.at = "lock" /\ f.fn = "put" ->
                              IF heap[f.src].refcount = 1
                              THEN {Access("destroy values", f.src, TRUE, "w")} ELSE {}
                       [] f.fn = "create_files" /\ f.at = "loop" ->
                              {Access("subordinates", f.src, FALSE, mode(f.src))}
                              \cup (IF child = NULL THEN {}
                                    ELSE {Access("child directory", child, FALSE, mode(child))})
                       [] f.fn = "create_files" /\ f.at = "down_write" ->
                              {Access("create_files", f.sub, TRUE, "w")}
                       [] f.fn = "remove_files" /\ f.at = "loop" ->
                              {Access("remove_files", f.src, child = NULL, mode(f.src))}
                              \cup (IF child = NULL THEN {}
                                    ELSE {Access("remove_files", child, FALSE, "w")})
                       [] f.fn = "remove_subordinate_locked" /\ f.at = "remove_files" ->
                              {Access("remove_files", f.sub, FALSE, "w")}
                       [] f.fn = "destroy" /\ f.at = "subordinates" ->
                              {Access("destroy", f.src, TRUE, mode(f.src))}
                       [] OTHER -> {}
          [] OTHER -> {}

\* a step of thread t inside a call
Step(t) ==
    \/ WalkEnter(t) \/ WalkDeref(t) \/ WalkDescend(t) \/ WalkAscend(t) \/ WalkReturn(t)
    \/ WriteLock(t) \/ WriteReturn(t)
    \/ LockSource(t) \/ UnlockSource(t) \/ CreateFilesLoop(t) \/ RemoveFilesLoop(t)
    \/ RemoveSubordinateLocked(t) \/ KrefPutRwsem(t) \/ Destroy(t)

(***************************************************************************)
(* Specifications.                                                         *)
(***************************************************************************)
NoCall == Res("none", NULL, NULL, NullVal, "", NULL, 0, NoRet)
BasePtrs == {NULL} \cup Bases

\* the state after boot: no source, the backing objects hold m
StatsFsBoot(m) ==
    /\ heap = [s \in Sources |-> FreeSrc]
    /\ mem = m
    /\ held = [s \in Sources |-> 0]
    /\ opens = [s \in Sources |-> 0]
    /\ opener = Idle
    /\ res = NoCall
    /\ schema_bufs = 0
    /\ reg = NoRegister
    /\ rwsem = [s \in Sources |-> Unlocked]
    /\ thr = [t \in Threads |-> IdleThread]

InitWith(m) == StatsFsBoot(m) /\ MetricfsBoot

Init == InitWith([b \in Bases |-> IF b = 1 THEN cont_wrap ELSE cont2])

\* every source has its own backing object
OwnBase(s) == ((s - 1) % NBase) + 1

\* Reference counts: creators, parents and open value files.
RefSources == 1..NRef
RefArrays == {"test_values"}
RefVals == {[arr |-> "test_values", idx |-> 1]}
Next ==
    \/ \E s \in RefSources : Create(s)
    \/ \E s \in RefSources, a \in RefArrays : AddValues(s, a, OwnBase(s))
    \/ \E s \in RefSources : Register(s)
    \/ \E p \in RefSources, c \in RefSources : AddSubordinate(p, c)
    \/ \E p \in RefSources, c \in RefSources : RemoveSubordinate(p, c)
    \/ \E s \in RefSources : Get(s)
    \/ \E s \in RefSources : Put(s)
    \/ \E s \in RefSources, v \in RefVals, ok \in BOOLEAN : Open(s, v, ok)
    \/ \E s \in RefSources : Release(s)

Spec == Init /\ [][Next]_vars

\* Bindings: add_values and revoke on sources that are linked, unlinked,
\* taken and put.
NextBind ==
    \/ \E s \in RefSources : Create(s)
    \/ \E s \in RefSources, a \in RefArrays, b \in BasePtrs : AddValues(s, a, b)
    \/ \E s \in RefSources : Revoke(s)
    \/ \E p \in RefSources, c \in RefSources : AddSubordinate(p, c)
    \/ \E p \in RefSources, c \in RefSources : RemoveSubordinate(p, c)
    \/ \E s \in RefSources : Get(s)
    \/ \E s \in RefSources : Put(s)

SpecBind == Init /\ [][NextBind]_vars

\* The aggregator: reads on a tree of sources.  A source binds an array at
\* its own backing object or, as a pure aggregate, at NULL.  A read changes
\* nothing, so consecutive reads return what single reads return: the runs
\* read after each call that changes the tree.
AggArrays == {"test_values", "test_all_aggr"}
AggVals == ValsOf("test_all_aggr") \cup {[arr |-> "test_values", idx |-> 1],
                                         [arr |-> "test_values", idx |-> 2], NullVal}
AggNames == {"u64", "s16", "does not exist"}
IsRead(r) == r.op \in {"get_value", "get_value_by_name"}
TotalBindings(h) ==
    Cardinality({x \in Sources \X (1..MaxBindings) : x[2] <= Len(h[x[1]].values_head)})
NextAgg ==
    \/ \E s \in Sources : Create(s)
    \/ \E s \in Sources, a \in AggArrays : \E b \in {NULL, OwnBase(s)} :
           TotalBindings(heap) < MaxAggBindings /\ AddValues(s, a, b)
    \/ \E p \in Sources, c \in Sources : p < c /\ AddSubordinate(p, c)
    \/ \E s \in Sources : Revoke(s)
    \/ \E s \in Sources, v \in AggVals : ~IsRead(res) /\ GetValue(s, v)
    \/ \E s \in Sources, n \in AggNames : ~IsRead(res) /\ GetValueByName(s, n)

SpecAgg == Init /\ [][NextAgg]_vars

\* Clear of simple values of every primitive type, on one source.
ClearArrays == {"test_values", "test_widths"}
ClearVals == UNION {ValsOf(a) : a \in ClearArrays} \cup {NullVal}
InitClear == InitWith([b \in Bases |-> cont_ones])
NextClear ==
    \/ Create(1)
    \/ \E a \in ClearArrays, b \in {NULL, 1} : AddValues(1, a, b)
    \/ \E v \in ClearVals : Clear(1, v)

SpecClear == InitClear /\ [][NextClear]_vars

\* A value-file open that runs concurrently with puts.
NextRace ==
    \/ \E s \in RefSources : Create(s)
    \/ \E s \in RefSources, a \in RefArrays : held[s] > 0 /\ AddValues(s, a, OwnBase(s))
    \/ \E s \in RefSources : held[s] > 0 /\ Register(s)
    \/ \E s \in RefSources, v \in RefVals : OpenEnter(s, v)
    \/ \E ok \in BOOLEAN, uaf \in BOOLEAN : OpenGet(ok, uaf)
    \/ \E s \in RefSources : Release(s)
    \/ \E s \in RefSources : heap[s].refcount > 1 /\ Put(s)
    \/ \E s \in RefSources : PutBegin(s)
    \/ \E s \in RefSources : DestroyRun(s)

SpecRace == Init /\ [][NextRace]_vars

\* Clear of aggregates on a tree of sources.
TreeClearVals == {[arr |-> "test_all_aggr", idx |-> 3], [arr |-> "test_all_aggr", idx |-> 1]}
NextTreeClear ==
    \/ \E s \in Sources : Create(s)
    \/ \E s \in Sources : \E b \in {NULL, OwnBase(s)} :
           TotalBindings(heap) < MaxAggBindings /\ AddValues(s, "test_all_aggr", b)
    \/ \E p \in Sources, c \in Sources : p < c /\ AddSubordinate(p, c)
    \/ \E s \in Sources, v \in TreeClearVals : Clear(s, v)

SpecTreeClear == Init /\ [][NextTreeClear]_vars

\* Linking and unlinking on a tree of sources that bind test_all_aggr.
NextLink ==
    \/ \E s \in Sources : Create(s)
    \/ \E s \in Sources : \E b \in {NULL, OwnBase(s)} :
           TotalBindings(heap) < MaxAggBindings /\ AddValues(s, "test_all_aggr", b)
    \/ \E p \in Sources, c \in Sources : p < c /\ AddSubordinate(p, c)
    \/ \E p \in Sources, c \in Sources : p < c /\ RemoveSubordinate(p, c)
    \/ \E s \in Sources : Put(s)

SpecLink == Init /\ [][NextLink]_vars

\* Aggregate reads of every kind on signed and on unsigned fields.
ExtArrays == {"test_extremes", "test_all_aggr"}
ExtVals == UNION {ValsOf(a) : a \in ExtArrays}
NextExt ==
    \/ \E s \in Sources : Create(s)
    \/ \E s \in Sources, a \in ExtArrays : \E b \in {NULL, OwnBase(s)} :
           TotalBindings(heap) < MaxAggBindings /\ AddValues(s, a, b)
    \/ \E p \in Sources, c \in Sources : p < c /\ AddSubordinate(p, c)
    \/ \E s \in Sources, v \in ExtVals : ~IsRead(res) /\ GetValue(s, v)

SpecExt == Init /\ [][NextExt]_vars

\* AVG reads on fields whose sum is negative, odd, or wraps around 2^64.
AvgVals == ValsOf("test_avg")
InitAvg == InitWith([b \in Bases |-> IF b = 1 THEN cont_m3 ELSE cont2_z])
NextAvg ==
    \/ \E s \in Sources : Create(s)
    \/ \E s \in Sources : \E b \in {NULL, OwnBase(s)} :
           TotalBindings(heap) < MaxAggBindings /\ AddValues(s, "test_avg", b)
    \/ \E p \in Sources, c \in Sources : p < c /\ AddSubordinate(p, c)
    \/ \E s \in Sources, v \in AvgVals : ~IsRead(res) /\ GetValue(s, v)

SpecAvg == InitAvg /\ [][NextAvg]_vars

\* Reads of simple values of every primitive type, by the API and through
\* the value files.
ReadArrays == {"test_values", "test_widths"}
ReadVals == UNION {ValsOf(a) : a \in ReadArrays}
NextRead ==
    \/ Create(1)
    \/ \E a \in ReadArrays, b \in BasePtrs : AddValues(1, a, b)
    \/ Register(1)
    \/ \E v \in ReadVals : GetValue(1, v)
    \/ \E v \in ReadVals : ReadFile(1, v)

SpecRead == Init /\ [][NextRead]_vars

\* Lookups by name on a source that binds arrays sharing the name "s32".
NameArrays == {"test_values", "test_all_aggr", "test_same_name"}
LookupNames == {"s32", "u64", "does not exist"}
NextName ==
    \/ Create(1)
    \/ \E a \in NameArrays, b \in BasePtrs : AddValues(1, a, b)
    \/ \E n \in LookupNames : GetValueByName(1, n)

SpecName == Init /\ [][NextName]_vars

\* Writes to the value files of descriptors with and without a write bit.
WriteVals == ValsOf("test_modes")
Written == {Zero64, W(1), S64_MIN}
NextWrite ==
    \/ \E s \in RefSources : Create(s)
    \/ \E s \in RefSources, b \in BasePtrs : AddValues(s, "test_modes", b)
    \/ Register(1)
    \/ \E p \in RefSources, c \in RefSources : p < c /\ AddSubordinate(p, c)
    \/ \E s \in RefSources, v \in WriteVals, w \in Written : WriteFile(s, v, w)

SpecWrite == Init /\ [][NextWrite]_vars

\* Revocation on a published tree of sources that bind test_all_aggr.
NextRevoke ==
    \/ \E s \in Sources : Create(s)
    \/ \E s \in Sources : \E b \in {NULL, OwnBase(s)} :
           TotalBindings(heap) < MaxAggBindings /\ AddValues(s, "test_all_aggr", b)
    \/ \E p \in Sources, c \in Sources : p < c /\ AddSubordinate(p, c)
    \/ Register(1)
    \/ \E s \in Sources : Revoke(s)

SpecRevoke == Init /\ [][NextRevoke]_vars

\* Metricfs: a callback that emits rows into the emitter metricfs_values_open
\* has set up.
EmitInts == {7, -12}
EmitStrs == {<<"x">>, <<"\\", "\n">>}
EmitF0 == {NoStr, <<"a">>, <<"a", " ", "b">>}
EmitF1 == {NoStr, <<"n">>}
InitEmit ==
    /\ StatsFsBoot([b \in Bases |-> cont2])
    /\ emitter = metric_emitter(ValuesBufSize)
    /\ metric = NoMetric
    /\ owner = NoModule
    /\ filp = NoFiles
    /\ mres = NoMCall
NextEmit ==
    \/ \E v \in EmitInts, f0 \in EmitF0, f1 \in EmitF1 : EmitInt(v, f0, f1)
    \/ \E v \in EmitStrs, f0 \in EmitF0, f1 \in EmitF1 : EmitStr(v, f0, f1)
SpecEmit == InitEmit /\ [][NextEmit]_vars

\* Metricfs: escape_string on every string of up to MaxStrLen characters
\* and every destination size up to the longest escaped text.
MaxStrLen == 3
EscChars == {"\\", " ", "\n", "n", "a"}
EscStrings == UNION {[1..n -> EscChars] : n \in 0..MaxStrLen}
InitEscape ==
    /\ StatsFsBoot([b \in Bases |-> cont2])
    /\ emitter = NoEmitter
    /\ metric = NoMetric
    /\ owner = NoModule
    /\ filp = NoFiles
    /\ \E x \in EscStrings, n \in 0..(2 * MaxStrLen) :
          mres = [op |-> "input", s |-> x, size |-> n]
NextEscape == EscapeString
SpecEscape == InitEscape /\ [][NextEscape]_vars

\* Metricfs: opens, closes, metric_unregister and the unloading of the owner
\* in any interleaving, for three registered metrics: one whose callback
\* emits more rows than the values buffer takes (more_than_64k), one whose
\* description is longer than the annotations buffer (huge_annotation), and
\* one whose field name is longer than the fields buffer.
LongText(n) == [i \in 1..n |-> DigitChar(i % 10)]
RowInt(v, f0, f1) == [op |-> "emit_int", v |-> v, f0 |-> f0, f1 |-> f1]
RowStr(v, f0, f1) == [op |-> "emit_str", v |-> v, f0 |-> f0, f1 |-> f1]
more_than_64k ==
    Metric(<<"o", "k">>, TRUE, <<"v">>, NoStr, FALSE,
           [i \in 1..4 |-> RowInt(i - 1, <<"v", DigitChar(i - 1)>>, NoStr)])
huge_annotation ==
    Metric(LongText(AnnotationsBufSize), FALSE, NoStr, NoStr, TRUE,
           <<RowStr(<<"t", "\n">>, NoStr, NoStr)>>)
long_field ==
    Metric(<<"a", " ", "b">>, FALSE, LongText(FieldsBufSize), <<"b">>, FALSE,
           <<RowInt(7, <<"x">>, <<"y">>), RowInt(-12, <<"a", " ", "b">>, <<"n">>),
             RowInt(7, NoStr, NoStr)>>)
Metrics == {more_than_64k, huge_annotation, long_field}
InitOpen ==
    /\ StatsFsBoot([b \in Bases |-> cont2])
    /\ emitter = NoEmitter
    /\ metric \in Metrics
    /\ owner = Module(0, TRUE)
    /\ filp = NoFiles
    /\ mres = NoMCall
NextOpen ==
    \/ \E t \in Openers, f \in MetricFiles : OpenHelper(t, f)
    \/ \E t \in Openers, ok \in BOOLEAN : OpenFinish(t, ok)
    \/ \E t \in Openers : Close(t)
    \/ UnregisterClear
    \/ UnregisterPut
    \/ DeleteModule
SpecOpen == InitOpen /\ [][NextOpen]_vars

\* The .schema file of sources that are created, bound, linked, published
\* and put.
NextSchema ==
    \/ \E s \in RefSources : Create(s)
    \/ \E s \in RefSources, a \in RefArrays : AddValues(s, a, OwnBase(s))
    \/ \E p \in RefSources, c \in RefSources : AddSubordinate(p, c)
    \/ \E s \in RefSources : Register(s)
    \/ \E s \in RefSources : Put(s)
    \/ \E s \in RefSources : SchemaOpen(s)

SpecSchema == Init /\ [][NextSchema]_vars

\* Metricfs: registration.  metric_register runs with file creations that
\* succeed or fail; open and metric_unregister take big_mutex, and the caller
\* can unregister only the metric that metric_register returned.
InitRegister ==
    /\ StatsFsBoot([b \in Bases |-> cont2])
    /\ emitter = NoEmitter
    /\ metric = NoMetric
    /\ owner = Module(0, TRUE)
    /\ filp = NoFiles
    /\ mres = NoMCall
NextRegister ==
    \/ \E mt \in Metrics : RegisterBegin(mt)
    \/ \E ok \in BOOLEAN : RegisterStep(ok)
    \/ \E t \in Openers, f \in MetricFiles :
           reg.big_mutex = "unlocked" /\ metric # NoMetric /\ OpenHelper(t, f)
    \/ \E t \in Openers, ok \in BOOLEAN : OpenFinish(t, ok)
    \/ \E t \in Openers : Close(t)
    \/ reg.ret = "m" /\ reg.big_mutex = "unlocked" /\ UnregisterClear
    \/ UnregisterPut
SpecRegister == InitRegister /\ [][NextRegister]_vars

\* Clear of simple descriptors on a tree of sources that bind test_values,
\* before and after revocations.
FrameVals == {[arr |-> "test_values", idx |-> 1], [arr |-> "test_values", idx |-> 2]}
NextFrame ==
    \/ \E s \in Sources : Create(s)
    \/ \E s \in Sources : AddValues(s, "test_values", OwnBase(s))
    \/ \E p \in Sources, c \in Sources : p < c /\ AddSubordinate(p, c)
    \/ \E s \in Sources : Revoke(s)
    \/ \E s \in Sources, v \in FrameVals : Clear(s, v)

SpecFrame == InitClear /\ [][NextFrame]_vars

\* Metricfs: one open of a values file, the rows its callback emits, the
\* reads of the file and its close.
ReadCounts == {0, 5, 2 * ValuesBufSize}
InitValues ==
    /\ StatsFsBoot([b \in Bases |-> cont2])
    /\ emitter = NoEmitter
    /\ metric = more_than_64k
    /\ owner = Module(0, TRUE)
    /\ filp = NoFiles
    /\ mres = NoMCall
NextValues ==
    \/ OpenHelper(1, "values")
    \/ ValuesOpenBegin(1)
    \/ \E v \in EmitInts, f0 \in EmitF0, f1 \in EmitF1 : EmitInt(v, f0, f1)
    \/ \E v \in EmitStrs, f0 \in EmitF0, f1 \in EmitF1 : EmitStr(v, f0, f1)
    \/ ValuesOpenReturn(1)
    \/ \E cnt \in ReadCounts : GenericRead(1, cnt)
    \/ Close(1)
SpecValues == InitValues /\ [][NextValues]_vars

\* Reads and clears of the SUM of test_all_aggr that run concurrently with
\* revocations and new bindings, on the tree 1 -> (3, 2): source 1 binds the
\* array at NULL, source 3 at its object, source 2 nothing yet.  The creators
\* keep their references.
WalkVal == [arr |-> "test_all_aggr", idx |-> 3]
WalkHeap ==
    LET h0 == [s \in Sources |-> NewSrc(s)]
        h1 == stats_fs_source_add_values(h0, 1, "test_all_aggr", NULL).heap
        h2 == stats_fs_source_add_values(h1, 3, "test_all_aggr", OwnBase(3)).heap
        h3 == stats_fs_source_add_subordinate(h2, 1, 2)
    IN  stats_fs_source_add_subordinate(h3, 1, 3)
WalkBoot(h) ==
    /\ heap = h
    /\ mem = [b \in Bases |-> IF b = 1 THEN cont_wrap ELSE cont2]
    /\ held = [s \in Sources |-> 1]
    /\ opens = [s \in Sources |-> 0]
    /\ opener = Idle
    /\ res = NoCall
    /\ schema_bufs = 0
    /\ reg = NoRegister
    /\ rwsem = [s \in Sources |-> Unlocked]
    /\ thr = [t \in Threads |-> IdleThread]
    /\ MetricfsBoot
InitWalk == WalkBoot(WalkHeap)
NextWalk ==
    \/ \E s \in {1, 3} : Call(1, "get_value", s, WalkVal, NULL, FALSE)
    \/ \E s \in {1, 3} : Call(1, "clear", s, WalkVal, NULL, FALSE)
    \/ \E s \in Sources : Call(2, "revoke", s, NullVal, NULL, FALSE)
    \/ \E s \in Sources :
           Call(2, "add_values", s, [arr |-> "test_all_aggr", idx |-> 0], OwnBase(s), FALSE)
    \/ \E t \in Threads : WalkEnter(t)
    \/ \E t \in Threads : WalkDeref(t)
    \/ \E t \in Threads : WalkDescend(t)
    \/ \E t \in Threads : WalkAscend(t)
    \/ \E t \in Threads : WalkReturn(t)
    \/ \E t \in Threads : WriteLock(t)
    \/ \E t \in Threads : WriteReturn(t)
SpecWalk == InitWalk /\ [][NextWalk]_vars

\* An aggregate read on the root that records, in every state from its call
\* to its return, what an uninterrupted read would have returned, while
\* another thread revokes and binds on the subordinates.
NextSnapshot ==
    \/ Call(1, "get_value", 1, WalkVal, NULL, TRUE)
    \/ \E s \in {2, 3} : Call(2, "revoke", s, NullVal, NULL, FALSE)
    \/ \E s \in {2, 3} :
           Call(2, "add_values", s, [arr |-> "test_all_aggr", idx |-> 0], OwnBase(s), FALSE)
    \/ \E t \in Threads : WalkEnter(t)
    \/ \E t \in Threads : WalkDeref(t)
    \/ \E t \in Threads : WalkDescend(t)
    \/ \E t \in Threads : WalkAscend(t)
    \/ \E t \in Threads : WalkReturn(t)
    \/ \E t \in Threads : WriteLock(t)
    \/ \E t \in Threads : WriteReturn(t)
SpecSnapshot == InitWalk /\ [][NextSnapshot]_vars

\* Every call that takes a semaphore, by two threads, on the chain
\* 1 -> 2 -> 3 and the trees the calls make of it.  Source 1 binds
\* test_all_aggr at NULL and source 3 at the second object, whose field bo is
\* 0: a clear of bo leaves the memory as it is.
LockVal == [arr |-> "test_all_aggr", idx |-> 2]
LockHeap ==
    LET h0 == [s \in Sources |-> NewSrc(s)]
        h1 == stats_fs_source_add_values(h0, 1, "test_all_aggr", NULL).heap
        h2 == stats_fs_source_add_values(h1, 3, "test_all_aggr", 2).heap
        h3 == stats_fs_source_add_subordinate(h2, 2, 3)
    IN  stats_fs_source_add_subordinate(h3, 1, 2)
InitLock ==
    /\ WalkBoot(LockHeap)
NextLock ==
    \/ Call(1, "get_value", 1, LockVal, NULL, FALSE)
    \/ Call(1, "clear", 1, LockVal, NULL, FALSE)
    \/ Call(2, "revoke", 2, NullVal, NULL, FALSE)
    \/ Call(2, "add_values", 1, LockVal, NULL, FALSE)
    \/ CallTree(1, "register", 1, NULL)
    \/ \E s, c \in Sources : s < c /\ CallTree(2, "add_subordinate", s, c)
    \/ CallTree(1, "add_subordinate", 3, 1)
    \/ \E s, c \in Sources : (s < c \/ (s = 3 /\ c = 1)) /\ CallTree(1, "remove_subordinate", s, c)
    \/ \E s \in {1, 2} : CallTree(2, "put", s, NULL)
    \/ CallTree(1, "release", 1, NULL)
    \/ Open(1, LockVal, TRUE)
    \/ \E t \in Threads : Step(t)
SpecLock == InitLock /\ [][NextLock]_vars

(***************************************************************************)
(* Properties.  The aggregates are stated over the set of the bindings of  *)
(* a subtree, not by the walk the code makes.                              *)
(***************************************************************************)
\* the position in the binding list of s of the binding in which the
\* descriptor d is found (the first whose array holds d), 0 when there is none
FoundAt(h, s, d) ==
    LET f == {i \in 1..Len(h[s].values_head) : h[s].values_head[i].values = d.arr}
    IN  IF f = {} THEN 0 ELSE CHOOSE i \in f : \A j \in f : i <= j

\* the bindings <<source, position>> of the subtree of s that have a non-null
\* base and the array ref
Contributors(h, s, ref) ==
    {x \in Subtree(h, s) \X (1..(MaxBindings + 1)) :
        /\ x[2] <= Len(h[x[1]].values_head)
        /\ h[x[1]].values_head[x[2]].base_addr # NULL
        /\ h[x[1]].values_head[x[2]].values = ref}

\* the field of descriptor val in the backing object of binding x
FieldOf(h, m, x, val) == get_simple_value(m[h[x[1]].values_head[x[2]].base_addr], val)

RECURSIVE SumOver(_, _, _, _)
SumOver(h, m, S, val) ==
    IF S = {} THEN Zero64
    ELSE LET x == CHOOSE y \in S : TRUE
         IN  Add64(FieldOf(h, m, x, val), SumOver(h, m, S \ {x}, val))

LeAs(val, a, b) == IF is_val_signed(val) THEN SLe64(a, b) ELSE ULe64(a, b)

\* the aggregate of kind val.aggr_kind over the bindings S
AggregateOver(h, m, S, val) ==
    LET F == {FieldOf(h, m, x, val) : x \in S}
        n == Cardinality(S)
    IN  CASE val.aggr_kind = STATS_FS_SUM -> SumOver(h, m, S, val)
          [] val.aggr_kind = STATS_FS_MIN ->
                 IF S = {} THEN (IF is_val_signed(val) THEN S64_MAX ELSE U64_MAX)
                 ELSE CHOOSE v \in F : \A w \in F : LeAs(val, v, w)
          [] val.aggr_kind = STATS_FS_MAX ->
                 IF S = {} THEN (IF is_val_signed(val) THEN S64_MIN ELSE Zero64)
                 ELSE CHOOSE v \in F : \A w \in F : LeAs(val, w, v)
          [] val.aggr_kind = STATS_FS_COUNT_ZERO ->
                 W(Cardinality({x \in S : FieldOf(h, m, x, val) = Zero64}))
          [] val.aggr_kind = STATS_FS_AVG ->
                 IF S = {} THEN Zero64
                 ELSE IF is_val_signed(val) THEN SDiv64(SumOver(h, m, S, val), n)
                 ELSE UDiv64(SumOver(h, m, S, val), n)
          [] OTHER -> Zero64

\* the last call was stats_fs_source_get_value(s, d) and d was found on s
ReadFound == res.op = "get_value" /\ FoundAt(heap, res.src, res.val) # 0
\* the binding on which the descriptor of the last read was found
ReadBinding == heap[res.src].values_head[FoundAt(heap, res.src, res.val)]

\* C1: a read of a SUM descriptor found on s in a binding whose base is NULL
\* returns 0 and the sum modulo 2^64 of the descriptor's field over every
\* binding of the subtree of s (s included, any depth) that has a non-null
\* base and the same array.
C1_SubtreeSum ==
    (/\ ReadFound
     /\ Deref(res.val).aggr_kind = STATS_FS_SUM
     /\ ReadBinding.base_addr = NULL)
    => /\ res.err = 0
       /\ res.ret = SumOver(heap, mem, Contributors(heap, res.src, res.val.arr),
                            Deref(res.val))

\* a SUM read on a root whose contributors are a child and a grandchild, with
\* a sum that wraps around 2^64
C1_Witness ==
    /\ ReadFound
    /\ Deref(res.val).aggr_kind = STATS_FS_SUM
    /\ ReadBinding.base_addr = NULL
    /\ \E x \in Contributors(heap, res.src, res.val.arr) :
           x[1] \notin {res.src} \cup Range(heap[res.src].subordinates_head)
    /\ Cardinality(Contributors(heap, res.src, res.val.arr)) = 2
    /\ res.ret = W(63)

Strip(list) == [i \in 1..Len(list) |-> [values |-> list[i].values,
                                        base_addr |-> list[i].base_addr]]

C4_NoTwoAlike ==
    \A s \in Sources : \A i, j \in 1..Len(heap[s].values_head) :
        (i # j /\ heap[s].values_head[i].values = heap[s].values_head[j].values)
        => heap[s].values_head[i].base_addr # heap[s].values_head[j].base_addr

\* C4 amended: no source holds two bindings with the same array and the same
\* non-null base.
C4_NoTwoAlikeNonNull ==
    \A s \in Sources : \A i, j \in 1..Len(heap[s].values_head) :
        (/\ i # j
         /\ heap[s].values_head[i].values = heap[s].values_head[j].values
         /\ heap[s].values_head[i].base_addr # NULL)
        => heap[s].values_head[i].base_addr # heap[s].values_head[j].base_addr

\* a source with two bindings of one array at two objects refuses a third
\* add_values of that array at one of them
C4_Witness ==
    /\ res.op = "add_values"
    /\ res.err = -EEXIST
    /\ res.base # NULL
    /\ Len(heap[res.src].values_head) = 2
    /\ \A i \in 1..2 : heap[res.src].values_head[i].base_addr # NULL

\* the names of the descriptors in the bindings of s
NamesOn(h, s) ==
    UNION {{ValueArrays[a][j].name : j \in 1..Len(ValueArrays[a])} :
              a \in {h[s].values_head[i].values : i \in 1..Len(h[s].values_head)}}

\* C5: lookup is local to the source.  stats_fs_source_get_value_by_name(s, n)
\* returns -ENOENT with result 0 when no binding of s itself has a descriptor
\* named n, whatever its subordinates hold, and stats_fs_source_get_value(s, d)
\* returns -ENOENT with result 0 when d is an element of no array bound on s.
C5_LookupIsLocal ==
    /\ (res.op = "get_value_by_name" /\ res.name \notin NamesOn(heap, res.src))
       => (res.err = -ENOENT /\ res.ret = Zero64)
    /\ (res.op = "get_value" /\ FoundAt(heap, res.src, res.val) = 0)
       => (res.err = -ENOENT /\ res.ret = Zero64)

\* a lookup by name fails on a parent although its child has the name
C5_Witness ==
    /\ res.op = "get_value_by_name"
    /\ res.err = -ENOENT
    /\ res.name \notin NamesOn(heap, res.src)
    /\ \E c \in Range(heap[res.src].subordinates_head) : res.name \in NamesOn(heap, c)

\* the sources that have s in their subtree: s and its ancestors
AncestorsOrSelf(h, s) == {a \in Sources : h[a].alive /\ s \in Subtree(h, a)}

\* C6: after stats_fs_source_revoke(s) a read of any descriptor of s of kind
\* NONE returns 0 with result 0, and an aggregate read on s or on an ancestor
\* of s does not include the fields of the bindings of s.
C6_AfterRevoke ==
    res.op = "revoke" =>
        LET s == res.src
        IN  /\ \A i \in 1..Len(heap[s].values_head) :
                   \A v \in ValsOf(heap[s].values_head[i].values) :
                       Deref(v).aggr_kind = STATS_FS_NONE
                       => stats_fs_source_get_value(heap, mem, s, v)
                              = [err |-> 0, ret |-> Zero64]
            /\ \A a \in AncestorsOrSelf(heap, s) :
                   \A i \in 1..Len(heap[a].values_head) :
                       \A v \in ValsOf(heap[a].values_head[i].values) :
                           (/\ Deref(v).aggr_kind # STATS_FS_NONE
                            /\ heap[a].values_head[FoundAt(heap, a, v)].base_addr = NULL)
                           => stats_fs_source_get_value(heap, mem, a, v)
                                  = [err |-> 0,
                                     ret |-> AggregateOver(heap, mem,
                                                 {x \in Contributors(heap, a, v.arr) :
                                                      x[1] # s},
                                                 Deref(v))]

\* revoke of a child that holds simple values and a binding of the array that
\* its parent aggregates
C6_Witness ==
    /\ res.op = "revoke"
    /\ \E i \in 1..Len(heap[res.src].values_head) :
           heap[res.src].values_head[i].values = "test_values"
    /\ \E a \in AncestorsOrSelf(heap, res.src) \ {res.src} :
           \E i, j \in 1..MaxBindings :
               /\ i <= Len(heap[a].values_head)
               /\ j <= Len(heap[res.src].values_head)
               /\ heap[a].values_head[i].base_addr = NULL
               /\ heap[a].values_head[i].values = "test_all_aggr"
               /\ heap[res.src].values_head[j].values = "test_all_aggr"

\* C7: the reference count of a live source is the number of references held
\* by its creator and by explicit gets not yet put, plus the number of
\* parents that have it in their subordinate list, plus the number of its
\* value files that are open.
C7_RefcountAccounting ==
    \A s \in Sources :
        heap[s].alive
        => heap[s].refcount = held[s] + Cardinality(Parents(heap, s)) + opens[s]

\* a source referenced by its creator, by a parent and by an open value file
C7_Witness ==
    \E s \in Sources :
        /\ heap[s].alive
        /\ held[s] = 1 /\ Parents(heap, s) # {} /\ opens[s] = 1
        /\ heap[s].refcount = 3

\* C8: a source is destroyed in a step exactly when no reference to it is
\* left after the step (none held, no open file, no surviving parent), never
\* while its count is above zero, and only by a step that puts; a child that
\* survives the destruction of its parent has lost exactly one reference and
\* is in no subordinate list.
C8_DestroyedAtZero ==
    [][\A s \in Sources :
        heap[s].alive =>
            /\ heap[s].refcount > 0
            /\ ~heap'[s].alive
               <=> /\ held'[s] + opens'[s] = 0
                   /\ \A p \in Parents(heap, s) :
                          ~heap'[p].alive \/ s \notin Range(heap'[p].subordinates_head)
            /\ ~heap'[s].alive => res'.op \in {"put", "release", "remove_subordinate"}
            /\ (heap'[s].alive /\ \E p \in Parents(heap, s) : ~heap'[p].alive)
               => /\ heap'[s].refcount = heap[s].refcount - 1
                  /\ Unlinked(heap', s)
                  /\ heap'[s].source_dentry = NULL]_vars

\* the put of a parent destroyed it, and its child, held by its creator,
\* survives unlinked
C8_Witness ==
    /\ res.op = "put"
    /\ ~heap[res.src].alive
    /\ \E c \in Sources :
           /\ heap[c].alive /\ held[c] = 1 /\ heap[c].refcount = 1
           /\ Len(heap[c].labels_head) = 2
           /\ heap[c].labels_head[1] = Label(res.src)

\* C9: an open succeeds only on a source whose count it incremented from a
\* non-zero value, and no thread inside an open holds a source that has been
\* destroyed.
C9_OpenNeverSeesDestroyed ==
    /\ opener.pc = "entered" => heap[opener.src].alive
    /\ (res.op = "open" /\ res.err = 0)
       => (heap[res.src].alive /\ heap[res.src].refcount > 0)

\* C10: after stats_fs_source_clear(s, d) returns 0 for a descriptor d of
\* kind NONE whose binding on s has a non-null base, a read of d on s returns
\* 0 with result 0; the descriptors cleared are of the nine primitive types.
C10_ClearThenRead ==
    /\ {Deref(v).type : v \in ClearVals \ {NullVal}} =
           {STATS_FS_U8, STATS_FS_U16, STATS_FS_U32, STATS_FS_U64, STATS_FS_BOOL,
            STATS_FS_S8, STATS_FS_S16, STATS_FS_S32, STATS_FS_S64}
    /\ (/\ res.op = "clear" /\ res.err = 0
        /\ FoundAt(heap, res.src, res.val) # 0
        /\ Deref(res.val).aggr_kind = STATS_FS_NONE
        /\ heap[res.src].values_head[FoundAt(heap, res.src, res.val)].base_addr # NULL)
       => stats_fs_source_get_value(heap, mem, res.src, res.val)
              = [err |-> 0, ret |-> Zero64]

\* a signed 64-bit field that held -1 was cleared and its neighbours were not
C10_Witness ==
    /\ res.op = "clear" /\ res.err = 0
    /\ res.val \in ValsOf("test_widths")
    /\ Deref(res.val).type = STATS_FS_S64
    /\ heap[res.src].values_head[FoundAt(heap, res.src, res.val)].base_addr = 1
    /\ \A i \in 1..8 : mem[1][i] = 0
    /\ \A i \in 9..16 : mem[1][i] = 255

\* the last call was a stats_fs_source_clear(s, d) that returned 0 for a
\* descriptor d of a kind other than NONE found on s
ClearedAggregate ==
    /\ res.op = "clear" /\ res.err = 0
    /\ FoundAt(heap, res.src, res.val) # 0
    /\ Deref(res.val).aggr_kind # STATS_FS_NONE

\* every binding of the subtree of the cleared source with a non-null base
\* and the same array reads 0 at the descriptor, and a SUM read returns 0
SubtreeReadsZero ==
    /\ \A x \in Contributors(heap, res.src, res.val.arr) :
           FieldOf(heap, mem, x, Deref(res.val)) = Zero64
    /\ Deref(res.val).aggr_kind = STATS_FS_SUM
       => stats_fs_source_get_value(heap, mem, res.src, res.val)
              = [err |-> 0, ret |-> Zero64]

SumVal == [arr |-> "test_all_aggr", idx |-> 3]
Sub64(a, b) == Add64(a, Neg64(b))
\* a read of SumVal on s is an aggregate read: found in a binding with a NULL base
AggregatesSum(h, s) ==
    /\ FoundAt(h, s, SumVal) # 0
    /\ h[s].values_head[FoundAt(h, s, SumVal)].base_addr = NULL
\* the SUM contribution of the subtree of c
SubtreeTotal(h, m, c) == SumOver(h, m, Contributors(h, c, SumVal.arr), Deref(SumVal))

\* C12: when stats_fs_source_remove_subordinate(p, c) removes a child c that
\* is in p's subordinate list, the SUM read on p and on every ancestor of p
\* drops by the SUM contribution of the whole subtree of c, and no source of
\* that subtree is left in the subtree of p or of an ancestor; a later
\* stats_fs_source_add_subordinate(p, c) raises the SUM read on p and on its
\* ancestors by the same contribution.
C12_RemoveSubordinate ==
    [][/\ (res'.op = "remove_subordinate"
           /\ res'.sub \in Range(heap[res'.src].subordinates_head))
          => \A a \in AncestorsOrSelf(heap, res'.src) :
                 /\ Subtree(heap', a) \cap Subtree(heap, res'.sub) = {}
                 /\ AggregatesSum(heap, a)
                    => /\ stats_fs_source_get_value(heap, mem, a, SumVal).err = 0
                       /\ stats_fs_source_get_value(heap', mem', a, SumVal)
                            = [err |-> 0,
                               ret |-> Sub64(stats_fs_source_get_value(heap, mem, a, SumVal).ret,
                                             SubtreeTotal(heap, mem, res'.sub))]
       /\ res'.op = "add_subordinate"
          => \A a \in AncestorsOrSelf(heap, res'.src) :
                 /\ Subtree(heap, res'.sub) \subseteq Subtree(heap', a)
                 /\ AggregatesSum(heap, a)
                    => stats_fs_source_get_value(heap', mem', a, SumVal)
                         = [err |-> 0,
                            ret |-> Add64(stats_fs_source_get_value(heap, mem, a, SumVal).ret,
                                          SubtreeTotal(heap, mem, res'.sub))]]_vars

\* a child with a child of its own was removed from an aggregating root,
\* both contributed a non-zero field, and the child is still alive
C12_Witness ==
    /\ res.op = "remove_subordinate"
    /\ heap[res.sub].alive /\ Unlinked(heap, res.sub)
    /\ AggregatesSum(heap, res.src)
    /\ Cardinality(Contributors(heap, res.sub, SumVal.arr)) = 2
    /\ heap[res.sub].subordinates_head # <<>>
    /\ SubtreeTotal(heap, mem, res.sub) = W(63)
    /\ stats_fs_source_get_value(heap, mem, res.src, SumVal) = [err |-> 0, ret |-> Zero64]

\* the last call was a read that aggregates: of a descriptor of a kind other
\* than NONE found on the source in a binding with a NULL base
AggregateRead ==
    /\ ReadFound
    /\ Deref(res.val).aggr_kind # STATS_FS_NONE
    /\ ReadBinding.base_addr = NULL

\* the accumulator at the end of the walk of the last aggregate read
WalkOfRead ==
    do_recursive_aggregation(heap, mem, res.src, ReadBinding.values, Deref(res.val),
                             init_aggregate_value(Deref(res.val)))

\* the bindings of the subtree of s with a non-null base, whatever their array
LiveBindings(h, s) ==
    {x \in Subtree(h, s) \X (1..(MaxBindings + 1)) :
        /\ x[2] <= Len(h[x[1]].values_head)
        /\ h[x[1]].values_head[x[2]].base_addr # NULL}

\* C13: in the walk of an aggregate read the bindings that contribute are
\* exactly the bindings of the subtree that have a non-null base and the
\* array of the binding on which the descriptor was found: the walk counts
\* them and only them, sums and counts the zeros of their fields only, and
\* the result is the aggregate over them; a binding of another array is left
\* out although that array has a descriptor of the same name, offset and type.
C13_ContributesIff ==
    AggregateRead =>
        LET C == Contributors(heap, res.src, res.val.arr)
            d == Deref(res.val)
        IN  /\ WalkOfRead.count = Cardinality(C)
            /\ WalkOfRead.sum = SumOver(heap, mem, C, d)
            /\ WalkOfRead.count_zero = Cardinality({x \in C : FieldOf(heap, mem, x, d) = Zero64})
            /\ res.ret = AggregateOver(heap, mem, C, d)
            /\ \A j \in 1..Len(ValueArrays["test_values"]) :
                   LET v == ValueArrays["test_values"][j]
                   IN  (v.name = d.name /\ res.val.arr = "test_all_aggr")
                       => (v.offset = d.offset /\ v.type = d.type)

\* an aggregate read for which a binding of test_values with a non-null base
\* is in the subtree and is left out, next to a binding that contributes
C13_Witness ==
    /\ AggregateRead
    /\ res.val.arr = "test_all_aggr"
    /\ WalkOfRead.count = 1
    /\ Cardinality(LiveBindings(heap, res.src)) = 2
    /\ \E x \in LiveBindings(heap, res.src) :
           /\ heap[x[1]].values_head[x[2]].values = "test_values"
           /\ FieldOf(heap, mem, x, Deref(res.val)) # Zero64

\* the heap with the subordinate list of every source and the binding list
\* of every source but s in the opposite order
OtherOrder(h, s) ==
    [t \in Sources |->
        [h[t] EXCEPT !.subordinates_head = Reverse(@),
                     !.values_head = IF t = s THEN @ ELSE Reverse(@)]]

C14_WitnessSigned ==
    /\ AggregateRead
    /\ Deref(res.val) = Val("s8", 13, STATS_FS_S8, STATS_FS_MIN)
    /\ Cardinality(Contributors(heap, res.src, res.val.arr)) = 2
    /\ res.ret = U64_MAX

\* q added up n times
RECURSIVE Times64(_, _)
Times64(q, n) == IF n = 0 THEN Zero64 ELSE Add64(q, Times64(q, n - 1))

\* q is a / n for the unsigned word a: q * n does not wrap and a - q * n < n
IsUQuotient(a, n, q) ==
    /\ \A k \in 0..(n - 1) : ULe64(Times64(q, k), Times64(q, k + 1))
    /\ ULe64(Times64(q, n), a)
    /\ ULe64(Sub64(a, Times64(q, n)), W(n - 1))

\* q is a / n truncated toward zero for the signed word a
IsSQuotient(a, n, q) ==
    IF IsNeg64(a)
    THEN (q = Zero64 \/ IsNeg64(q)) /\ IsUQuotient(Neg64(a), n, Neg64(q))
    ELSE ~IsNeg64(q) /\ IsUQuotient(a, n, q)

\* C15: an aggregate read of kind AVG returns 0 with no contributor and
\* otherwise the quotient, truncated toward zero, of the sum of the
\* contributing fields by their number: of the sum as a signed 64-bit
\* integer when the type is signed, as an unsigned one otherwise.  The S16
\* fields -3 and 0 give -1, and the U8 fields 127 and 255 give 191.
C15_Average ==
    (AggregateRead /\ Deref(res.val).aggr_kind = STATS_FS_AVG)
    => LET d == Deref(res.val)
           C == Contributors(heap, res.src, res.val.arr)
           n == Cardinality(C)
           F == {<<x, FieldOf(heap, mem, x, d)>> : x \in C}
           sum == SumOver(heap, mem, C, d)
       IN  /\ res.err = 0
           /\ n = 0 => res.ret = Zero64
           /\ (n > 0 /\ is_val_signed(d)) => IsSQuotient(sum, n, res.ret)
           /\ (n > 0 /\ ~is_val_signed(d)) => IsUQuotient(sum, n, res.ret)
           /\ (d.type = STATS_FS_S16 /\ n = 2
               /\ {f[2] : f \in F} = {Neg64(W(3)), Zero64})
              => res.ret = Neg64(W(1))
           /\ (d.type = STATS_FS_U8 /\ n = 2 /\ {f[2] : f \in F} = {W(127), W(255)})
              => res.ret = W(191)

\* the average of the S16 fields -3 and 0 was read and is -1
C15_Witness ==
    /\ AggregateRead
    /\ Deref(res.val) = Val("s16", 14, STATS_FS_S16, STATS_FS_AVG)
    /\ {FieldOf(heap, mem, x, Deref(res.val)) :
            x \in Contributors(heap, res.src, res.val.arr)} = {Neg64(W(3)), Zero64}
    /\ Cardinality(Contributors(heap, res.src, res.val.arr)) = 2
    /\ res.ret = Neg64(W(1))

\* C16: an aggregate read with no contributing binding in the subtree
\* returns 0 and not -ENOENT, and the result is 2^63 - 1 for a signed MIN,
\* 2^64 - 1 for an unsigned MIN, -2^63 for a signed MAX, 0 for an unsigned
\* MAX, and 0 for SUM, COUNT_ZERO and AVG; the descriptors read are of every
\* one of these cases.
C16_Sentinels ==
    /\ (({STATS_FS_MIN, STATS_FS_MAX} \X BOOLEAN)
          \cup {<<STATS_FS_SUM, FALSE>>, <<STATS_FS_COUNT_ZERO, FALSE>>,
                <<STATS_FS_AVG, FALSE>>})
       \subseteq {<<Deref(v).aggr_kind, is_val_signed(Deref(v))>> : v \in ExtVals}
    /\ (AggregateRead /\ Contributors(heap, res.src, res.val.arr) = {})
       => LET d == Deref(res.val)
          IN  /\ res.err = 0
              /\ res.ret =
                   CASE d.aggr_kind = STATS_FS_MIN /\ is_val_signed(d) -> S64_MAX
                     [] d.aggr_kind = STATS_FS_MIN /\ ~is_val_signed(d) -> U64_MAX
                     [] d.aggr_kind = STATS_FS_MAX /\ is_val_signed(d) -> S64_MIN
                     [] OTHER -> Zero64

\* an unsigned MIN was read on a source whose subtree has a live binding of
\* another array but none of the array of the descriptor
C16_Witness ==
    /\ AggregateRead
    /\ Deref(res.val).aggr_kind = STATS_FS_MIN
    /\ ~is_val_signed(Deref(res.val))
    /\ Contributors(heap, res.src, res.val.arr) = {}
    /\ \E x \in LiveBindings(heap, res.src) : x[1] # res.src
    /\ res.err = 0
    /\ res.ret = U64_MAX

\* the number of bytes of a field of type t
FieldWidth(t) ==
    CASE t % STATS_FS_SIGN = STATS_FS_U8 -> 1
      [] t % STATS_FS_SIGN = STATS_FS_U16 -> 2
      [] t % STATS_FS_SIGN = STATS_FS_U32 -> 4
      [] t % STATS_FS_SIGN = STATS_FS_U64 -> 8
      [] t % STATS_FS_SIGN = STATS_FS_BOOL -> 1

\* the last call was a read, by the API or through the value file, of a
\* descriptor found on the source in a binding with a non-null base
SimpleRead ==
    /\ res.op \in {"get_value", "read_file"}
    /\ FoundAt(heap, res.src, res.val) # 0
    /\ heap[res.src].values_head[FoundAt(heap, res.src, res.val)].base_addr # NULL

\* C17: a read of a descriptor of a live binding returns 0 and the bytes of
\* the field at base + offset, followed by zero bytes for U8, U16, U32, U64
\* and BOOL and by copies of the sign bit for S8, S16, S32 and S64, so that
\* the low bytes of the result are the field again and an S32 field holding
\* INT32_MIN reads as 0xffffffff80000000; the value file prints with "%lld"
\* for the four signed types and with "%llu" for the others.
C17_Widening ==
    /\ SimpleRead
       => LET d == Deref(res.val)
              obj == mem[heap[res.src].values_head[FoundAt(heap, res.src, res.val)].base_addr]
              w == FieldWidth(d.type)
              signed == d.type \in {STATS_FS_S8, STATS_FS_S16, STATS_FS_S32, STATS_FS_S64}
          IN  /\ res.err = 0
              /\ \A i \in 1..w : res.ret[i] = obj[d.offset + i]
              /\ \A i \in (w + 1)..8 :
                     res.ret[i] = IF signed /\ obj[d.offset + w] >= 128 THEN 255 ELSE 0
              /\ (d.type = STATS_FS_S32
                  /\ [i \in 1..4 |-> obj[d.offset + i]] = <<0, 0, 0, 128>>)
                 => res.ret = <<0, 0, 0, 128, 255, 255, 255, 255>>
              /\ res.op = "read_file"
                 => res.fmt = IF signed THEN "%lld\n" ELSE "%llu\n"
    /\ {Deref(v).type : v \in ReadVals} =
           {STATS_FS_U8, STATS_FS_U16, STATS_FS_U32, STATS_FS_U64, STATS_FS_BOOL,
            STATS_FS_S8, STATS_FS_S16, STATS_FS_S32, STATS_FS_S64}

\* the value file of an S32 field that holds INT32_MIN was read
C17_Witness ==
    /\ SimpleRead
    /\ res.op = "read_file"
    /\ Deref(res.val).type = STATS_FS_S32
    /\ res.ret = <<0, 0, 0, 128, 255, 255, 255, 255>>
    /\ res.fmt = "%lld\n"

\* the first element of array a that has the name n, NullVal when none has
FirstNamed(a, n) ==
    LET J == {j \in 1..Len(ValueArrays[a]) : ValueArrays[a][j].name = n}
    IN  IF J = {} THEN NullVal ELSE [arr |-> a, idx |-> CHOOSE j \in J : \A k \in J : j <= k]

\* what a lookup of n on s resolves to: the descriptor and the array and base
\* of the binding that answers the read, or NullVal
Resolved(h, s, n) ==
    LET d == search_in_source_by_name(h, s, n)
    IN  IF d = NullVal THEN NullVal
        ELSE [val |-> d,
              values |-> h[s].values_head[FoundAt(h, s, d)].values,
              base_addr |-> h[s].values_head[FoundAt(h, s, d)].base_addr]

\* the binding (a, b) answers the lookup of n with the first element of a
\* that has the name
ResolvesTo(h, s, n, a, b) ==
    Resolved(h, s, n) = [val |-> FirstNamed(a, n), values |-> a, base_addr |-> b]

\* a step in which stats_fs_source_add_values added a binding
AddedBinding == res'.op = "add_values" /\ res'.err = 0

Published(h, s) ==
    /\ h[s].source_dentry # NULL
    /\ h[s].schema_file
    /\ h[s].vfiles = UNION {ValsOf(h[s].values_head[i].values) :
                               i \in 1..Len(h[s].values_head)}

\* the directories and files of every source
Files(h) == [s \in Sources |-> <<h[s].source_dentry, h[s].schema_file, h[s].vfiles>>]

\* C19: when stats_fs_source_add_subordinate(parent, child) returns and
\* parent has a directory, child and every descendant of child has a
\* directory, a .schema file and a value file for each descriptor of each of
\* its bindings, whatever was done before; when parent has no directory the
\* call creates nothing.
C19_PublishedOnLink ==
    [][res'.op = "add_subordinate" =>
        IF heap'[res'.src].source_dentry # NULL
        THEN \A x \in Subtree(heap', res'.sub) : Published(heap', x)
        ELSE Files(heap') = Files(heap)]_vars

\* a binding of s is marked files_created and its value files do not exist
StaleFlag(h, s) ==
    \E i \in 1..Len(h[s].values_head) :
        /\ h[s].values_head[i].files_created
        /\ ~(ValsOf(h[s].values_head[i].values) \subseteq h[s].vfiles)

\* the same, for a child in whose subtree no binding is marked files_created
\* without its files
C19_PublishedUnlessStale ==
    [][(/\ res'.op = "add_subordinate"
        /\ \A x \in Subtree(heap, res'.sub) : ~StaleFlag(heap, x))
       => IF heap'[res'.src].source_dentry # NULL
          THEN \A x \in Subtree(heap', res'.sub) : Published(heap', x)
          ELSE Files(heap') = Files(heap)]_vars

\* the effective mode of descriptor d, its mode or 0644 when that is 0, has
\* one of the write bits 0200, 0020, 0002
HasWriteBit(d) ==
    LET mode == IF d.mode = 0 THEN 420 ELSE d.mode
    IN  (mode \div 128) % 2 = 1 \/ (mode \div 16) % 2 = 1 \/ (mode \div 2) % 2 = 1

C21_RevokeFrame ==
    [][res'.op = "revoke" =>
        LET s == res'.src
        IN  /\ \A i \in 1..Len(heap'[s].values_head) : heap'[s].values_head[i].base_addr = NULL
            /\ heap' = [heap EXCEPT ![s].values_head =
                           [i \in 1..Len(@) |-> [values |-> @[i].values, base_addr |-> NULL,
                                                 files_created |-> @[i].files_created]]]
            /\ mem' = mem /\ held' = held /\ opens' = opens
            /\ \A a \in AncestorsOrSelf(heap, s) :
                   \A v \in ValsOf("test_all_aggr") :
                       (/\ FoundAt(heap', a, v) # 0
                        /\ heap'[a].values_head[FoundAt(heap', a, v)].base_addr = NULL)
                       => /\ Contributors(heap', a, v.arr) =
                                 {x \in Contributors(heap, a, v.arr) : x[1] # s}
                          /\ stats_fs_source_get_value(heap', mem', a, v) =
                                 [err |-> 0,
                                  ret |-> AggregateOver(heap, mem,
                                              {x \in Contributors(heap, a, v.arr) : x[1] # s},
                                              Deref(v))]
            /\ stats_fs_source_revoke(heap', s) = heap']_vars

\* a published source with a live binding and a contributing child, itself
\* the child of an aggregating root, has been revoked
C21_Witness ==
    /\ res.op = "revoke"
    /\ heap[res.src].source_dentry # NULL
    /\ heap[res.src].vfiles # {}
    /\ \E c \in Range(heap[res.src].subordinates_head) :
           Contributors(heap, c, "test_all_aggr") # {}
    /\ \E a \in AncestorsOrSelf(heap, res.src) \ {res.src} :
           /\ AggregatesSum(heap, a)
           /\ stats_fs_source_get_value(heap, mem, a, SumVal).ret # Zero64

\* the labels of the ancestors of s, from the nearest to the root
RECURSIVE AncestorLabels(_, _)
AncestorLabels(h, s) ==
    IF Parents(h, s) = {} THEN <<>>
    ELSE LET p == CHOOSE q \in Parents(h, s) : TRUE
         IN  <<Label(p)>> \o AncestorLabels(h, p)

\* every live source has its own label first, then those of its ancestors
OwnLabelFirst(h) ==
    \A s \in Sources :
        h[s].alive => h[s].labels_head = <<Label(s)>> \o AncestorLabels(h, s)

\* C22: after any sequence of stats_fs_source_create and
\* stats_fs_source_add_subordinate calls the label list of every source is
\* its own (label_key, name) pair followed by the labels of its ancestors
\* from the nearest to the root: a create or add_subordinate step from a
\* state of that shape leads to a state of that shape.
C22_OwnLabelFirst ==
    [][(res'.op \in {"create", "add_subordinate"} /\ OwnLabelFirst(heap))
       => OwnLabelFirst(heap')]_vars

\* C23: the label list of a live source with d ancestors has d + 1 entries.
C23_DepthPlusOne ==
    \A s \in Sources :
        heap[s].alive => Len(heap[s].labels_head) = Len(AncestorLabels(heap, s)) + 1

\* C24: right after stats_fs_source_add_subordinate(parent, child) of a
\* child that was just created (its own label only, no parent, no
\* subordinate) the child has one label more than the parent and the last
\* label of the child is the last label of the parent.
C24_LabelMonotonicity ==
    [][(/\ res'.op = "add_subordinate"
        /\ heap[res'.sub].labels_head = <<Label(res'.sub)>>
        /\ heap[res'.sub].subordinates_head = <<>>
        /\ Unlinked(heap, res'.sub))
       => LET p == heap'[res'.src].labels_head
              c == heap'[res'.sub].labels_head
          IN  Len(c) = Len(p) + 1 /\ c[Len(c)] = p[Len(p)]]_vars


\* the text escape_string makes of s when the destination is large enough
Escaped(s) ==
    LET t == escape_string([i \in 1..(2 * Len(s)) |-> Uninit], s, 2 * Len(s))
    IN  SubSeq(t.dest, 1, t.pos)

\* the row of an emit call: the escaped fields, each followed by a space,
\* the value and a newline
RowOf(m) ==
    (IF m.f0 = NoStr THEN <<>>
     ELSE Escaped(m.f0) \o <<" ">>
          \o (IF m.f1 = NoStr THEN <<>> ELSE Escaped(m.f1) \o <<" ">>))
    \o (IF m.op = "emit_int" THEN m.v ELSE Escaped(m.v))
    \o <<"\n">>

\* what the values file serves once the callback returns: the bytes below
\* the cursor (bytes_written = e.buf - e.orig_buf)
Served(e) == SubSeq(e.orig_buf, 1, e.buf)

IsEmit(m) == m.op \in {"emit_int", "emit_str"}

\* C25: every metric_emit_int_value or metric_emit_str_value call either
\* appends the complete row (escaped fields, value, newline) to the served
\* bytes and advances the cursor by the length of the row, or leaves the
\* cursor and the served bytes as they were; when the cursor plus the
\* length of the row exceeds the size of the buffer the cursor is unchanged.
C25_RowAtomic ==
    [][IsEmit(mres') =>
          LET row == RowOf(mres')
          IN  /\ \/ /\ Served(emitter') = Served(emitter) \o row
                    /\ emitter'.buf = emitter.buf + Len(row)
                 \/ /\ emitter'.buf = emitter.buf
                    /\ Served(emitter') = Served(emitter)
              /\ emitter.buf + Len(row) > emitter.size => emitter'.buf = emitter.buf]_vars

\* C25 witness: rows have been appended and the last call was a row that does
\* not fit: its first byte lies past the cursor, outside the served bytes.
C25_Witness ==
    /\ IsEmit(mres)
    /\ emitter.buf > 0
    /\ emitter.buf + Len(RowOf(mres)) > emitter.size
    /\ emitter.orig_buf[emitter.buf + 1] = RowOf(mres)[1]

\* C26: once a row of the callback has been dropped, no later emit call of
\* the callback appends anything.
C26_NothingAfterDrop ==
    [][(IsEmit(mres') /\ IsEmit(mres) /\ mres.dropped) => emitter'.buf = emitter.buf]_vars

\* the inverse the claim names: backslash-backslash is a backslash,
\* backslash-space a space, backslash-n a newline, read from the left
RECURSIVE unescape(_)
unescape(t) ==
    IF t = <<>> THEN <<>>
    ELSE IF Head(t) = "\\" /\ Len(t) >= 2 /\ t[2] \in {"\\", " ", "n"}
         THEN <<IF t[2] = "n" THEN "\n" ELSE t[2]>> \o unescape(SubSeq(t, 3, Len(t)))
         ELSE <<Head(t)>> \o unescape(Tail(t))

\* the character at i is a backslash that escapes the character after it
RECURSIVE Escapes(_, _)
Escapes(t, i) == t[i] = "\\" /\ ~(i > 1 /\ Escapes(t, i - 1))

\* the characters of s that escape_string writes as two
Special(s) == {i \in 1..Len(s) : s[i] \in {"\\", " ", "\n"}}

\* C27: unescaping the text escape_string(x) writes gives x back; the text
\* holds no newline and no space that is not escaped by a backslash; the
\* value returned is the length of the whole escaped text whatever the
\* size of the destination.
C27_EscapeRoundTrip ==
    mres.op = "escape_string" =>
        LET out == SubSeq(mres.dest, 1, Min(mres.rc, mres.size))
        IN  /\ mres.rc <= mres.size => unescape(out) = mres.s
            /\ \A i \in 1..Len(out) :
                  /\ out[i] # "\n"
                  /\ out[i] = " " => (i > 1 /\ Escapes(out, i - 1))
            /\ mres.rc = Len(mres.s) + Cardinality(Special(mres.s))

\* C27 witness: a backslash, the letter n and a newline, escaped in full
\* into five characters.
C27_Witness ==
    /\ mres.op = "escape_string"
    /\ mres.s = <<"\\", "n", "\n">>
    /\ mres.rc = 5
    /\ mres.dest = <<"\\", "\\", "n", "\\", "n">>

\* the threads that hold an open file, and those inside an open that has
\* taken its references
OpenFiles == {t \in Openers : filp[t].pc = "open"}
InOpen == {t \in Openers : filp[t].pc = "helper"}

\* C28: an open that succeeds has taken one metric reference and one module
\* reference; the close of an open file releases the buffer and one
\* reference of each kind, whether or not metric_unregister has run since
\* the open; the metric is freed exactly when metric_unregister has run and
\* no file is open.
C28_OpenCloseBalance ==
    [][/\ mres'.op = "metric_module_get" =>
             /\ metric'.refcnt = metric.refcnt + 1
             /\ owner'.refcnt = owner.refcnt + 1
       /\ mres'.op = "release" =>
             /\ ~mres'.oops
             /\ filp'[mres'.t] = ClosedFile
             /\ metric'.refcnt = metric.refcnt - 1
             /\ owner'.refcnt = owner.refcnt - 1
       /\ metric'.freed <=>
             (metric'.unregister = "done" /\ OpenFiles' = {} /\ InOpen' = {})]_vars

\* What holds of the close: it releases the buffer and both references
\* when the inode still points to the metric, and the metric is never freed
\* before metric_unregister has run and every file is closed.
C28_BalanceWhileRegistered ==
    [][/\ (mres'.op = "release" /\ metric.i_private[mres'.file]) =>
             /\ filp'[mres'.t] = ClosedFile
             /\ metric'.refcnt = metric.refcnt - 1
             /\ owner'.refcnt = owner.refcnt - 1
       /\ metric'.freed =>
             (metric'.unregister = "done" /\ OpenFiles' = {} /\ InOpen' = {})]_vars

\* the step is the critical section of metric_open_helper
IsOpenHelper(before, call) ==
    call.op \in {"open", "metric_module_get"} /\ before[call.t].pc = "closed"

\* C29: an open is rejected with an error, without a buffer and with both
\* counts as they were, when the inode no longer points to the metric
\* (metric_unregister has cleared it), when the module reference cannot be
\* taken or when the metric reference cannot be taken; once
\* metric_unregister has returned no open gets past metric_open_helper; no
\* open reads a metric that was freed.
C29_OpenRejected ==
    [][/\ IsOpenHelper(filp, mres') =>
             /\ ~mres'.uaf
             /\ (~metric.i_private[mres'.file] \/ ~owner.live \/ metric.refcnt = 0) =>
                   /\ mres'.ret = -ENXIO
                   /\ metric' = metric
                   /\ owner' = owner
                   /\ filp'[mres'.t] = ClosedFile
             /\ metric.unregister = "done" => mres'.ret = -ENXIO
       /\ (mres'.op = "open" /\ filp[mres'.t].pc = "helper") => ~metric.freed]_vars

\* C29 witness: metric_unregister has returned while a file is still open,
\* and the open of another thread has just been rejected.
C29_Witness ==
    /\ mres.op = "open"
    /\ mres.ret = -ENXIO
    /\ metric.unregister = "done"
    /\ ~metric.freed
    /\ OpenFiles # {}

\* an open rejected because the owner is being unloaded
C29_WitnessModule ==
    /\ mres.op = "open"
    /\ mres.ret = -ENXIO
    /\ metric.unregister = "no"
    /\ ~owner.live

\* the text of the annotations file and of the fields file
AnnotationsText(mt) ==
    STR_DESCRIPTION \o Escaped(mt.description) \o <<"\n">>
    \o (IF mt.is_cumulative THEN STR_CUMULATIVE ELSE <<>>)
FieldsText(mt) ==
    (IF mt.fname0 = NoStr THEN <<>> ELSE mt.fname0 \o <<" ">>)
    \o (IF mt.fname1 = NoStr THEN <<>> ELSE mt.fname1 \o <<" ">>)
    \o STR_value
    \o (IF mt.fname0 = NoStr THEN <<>> ELSE STR_str \o <<" ">>)
    \o (IF mt.fname1 = NoStr THEN <<>> ELSE STR_str \o <<" ">>)
    \o (IF mt.is_string THEN STR_str ELSE STR_int) \o <<"\n">>
TextOf(f, mt) == IF f = "annotations" THEN AnnotationsText(mt) ELSE FieldsText(mt)

\* the rows i..Len(rows) of a callback that are in S, one after the other
RECURSIVE RowsIn(_, _, _)
RowsIn(rows, S, i) ==
    IF i > Len(rows) THEN <<>>
    ELSE (IF i \in S THEN RowOf([rows[i] EXCEPT !.v = IF rows[i].op = "emit_int"
                                                      THEN Decimal(@) ELSE @])
          ELSE <<>>) \o RowsIn(rows, S, i + 1)

\* the step is the second half of an open in which kvmalloc succeeded
IsOpenFinish(before, call) ==
    call.op = "open" /\ before[call.t].pc = "helper" /\ call.kvmalloc

\* the open of an annotations or fields file whose text does not fit fails
\* with -ENOMEM, keeps no buffer and gives back both references
TooLongFails(f, mt, ow, mt2, ow2, file2, call) ==
    (f \in {"annotations", "fields"} /\ Len(TextOf(f, mt)) > BufSize(f)) =>
        /\ ~call.oops
        /\ call.ret = -ENOMEM
        /\ file2 = ClosedFile
        /\ mt2.refcnt = mt.refcnt - 1
        /\ ow2.refcnt = ow.refcnt - 1

\* the open of a values file succeeds and serves whole rows of the callback
ValuesWholeRows(f, mt, file2, call) ==
    f = "values" =>
        /\ ~call.oops
        /\ call.ret = 0
        /\ \E S \in SUBSET (1..Len(mt.emit_fn)) :
              SubSeq(file2.private_data.buf, 1, file2.private_data.bytes_written)
                  = RowsIn(mt.emit_fn, S, 1)

\* C30: when the text of an annotations or fields file does not fit its
\* buffer the open fails with -ENOMEM, nothing is served, and the buffer,
\* the metric reference and the module reference of this open are released;
\* the open of a values file whose rows do not fit succeeds and serves whole
\* rows.
C30_AllOrNothing ==
    [][IsOpenFinish(filp, mres') =>
          /\ TooLongFails(mres'.file, metric, owner, metric', owner', filp'[mres'.t], mres')
          /\ ValuesWholeRows(mres'.file, metric, filp'[mres'.t], mres')]_vars

\* What holds of the failing open: the same, for the opens during which the
\* inode still points to the metric.
C30_AllOrNothingWhileRegistered ==
    [][(IsOpenFinish(filp, mres') /\ metric.i_private[mres'.file]) =>
          /\ TooLongFails(mres'.file, metric, owner, metric', owner', filp'[mres'.t], mres')
          /\ ValuesWholeRows(mres'.file, metric, filp'[mres'.t], mres')]_vars

\* a values file is open whose callback emitted more than the buffer takes
C30_WitnessValues ==
    /\ mres.op = "open"
    /\ mres.file = "values"
    /\ mres.ret = 0
    /\ Len(RowsIn(metric.emit_fn, 1..Len(metric.emit_fn), 1)) > ValuesBufSize
    /\ filp[mres.t].private_data.bytes_written > 0

\* the bytes a read of an open file can return
FileContent(file) == SubSeq(file.private_data.buf, 1, file.private_data.bytes_written)

\* the annotations text with the description between double quotes
QuotedAnnotationsText(mt) ==
    STR_DESCRIPTION \o <<"\"">> \o Escaped(mt.description) \o <<"\"", "\n">>
    \o (IF mt.is_cumulative THEN STR_CUMULATIVE ELSE <<>>)

\* C31: the content of an open annotations file is the word DESCRIPTION, a
\* space, a double quote, the escaped description, a double quote and a
\* newline, followed by the line CUMULATIVE iff the metric is cumulative.
C31_AnnotationsQuoted ==
    \A t \in Openers :
        (filp[t].pc = "open" /\ filp[t].file = "annotations") =>
            FileContent(filp[t]) = QuotedAnnotationsText(metric)

\* What holds of the annotations file: the same text without the two double
\* quotes.
C31_AnnotationsUnquoted ==
    \A t \in Openers :
        (filp[t].pc = "open" /\ filp[t].file = "annotations") =>
            FileContent(filp[t]) = AnnotationsText(metric)

\* an annotations file of a cumulative metric is open
C31_WitnessOpen ==
    \E t \in Openers :
        /\ filp[t].pc = "open"
        /\ filp[t].file = "annotations"
        /\ metric.is_cumulative
(***************************************************************************)
(* C32: every open of a .schema file returns with a snapshot buffer of its *)
(* own attached to the open file, holding the LABEL block with the labels  *)
(* of the source and one METRIC block per descriptor of each binding; no   *)
(* buffer is left allocated without an open file that will free it.        *)
(***************************************************************************)
C32_SchemaSnapshot ==
    res.op = "schema_open" =>
        /\ ~res.oops
        /\ res.err = 0 => res.private_data.str = SchemaText(heap, res.src)
        /\ res.err # 0 => schema_bufs = 0

(***************************************************************************)
(* C33: a metric_register in which the creation of a file failed is never  *)
(* stuck, and once it has returned it has returned NULL with big_mutex     *)
(* unlocked, no file pointing to the metric and the metric released.       *)
(***************************************************************************)
C33_FailedRegisterUnwinds ==
    reg.failed =>
        IF reg.pc = "returned"
        THEN /\ reg.ret = "NULL"
             /\ reg.big_mutex = "unlocked"
             /\ \A f \in MetricFiles : ~metric.i_private[f]
             /\ metric.freed
        ELSE ENABLED (\E ok \in BOOLEAN : RegisterStep(ok))

(***************************************************************************)
(* C38: an open of a .schema file returns, and the reference it holds on   *)
(* the source is the only thing it adds to the count: the count is the     *)
(* references of the creator, the parents and the open value files, plus   *)
(* one while this .schema file is open, which its close gives back.        *)
(***************************************************************************)
C38_SchemaOpenCloseBalanced ==
    res.op = "schema_open" =>
        /\ ~res.oops
        /\ heap[res.src].refcount =
               held[res.src] + Cardinality(Parents(heap, res.src)) + opens[res.src]
               + (IF res.private_data = NULL THEN 0 ELSE 1)

(***************************************************************************)
(* C39: a stats_fs_source_clear(s, d) on a descriptor d of kind NONE       *)
(* changes no byte of any backing object other than the bytes of the field *)
(* at d's offset in the object of the binding of s in which d is found, in *)
(* every state, also after revoke(s).                                      *)
(***************************************************************************)
C39_ClearFrame ==
    [][(res'.op = "clear" /\ Deref(res'.val).aggr_kind = STATS_FS_NONE) =>
          \A b \in Bases : \A i \in 1..16 :
              mem'[b][i] # mem[b][i] =>
                  LET at == FoundAt(heap, res'.src, res'.val)
                      d == Deref(res'.val)
                  IN  /\ at # 0
                      /\ heap[res'.src].values_head[at].base_addr = b
                      /\ i > d.offset
                      /\ i <= d.offset + FieldWidth(d.type)]_vars

\* The frame of C39 for the calls in which the binding of s holding d has a
\* non-null base: for those the frame holds.
C39_ClearFrameNonNullBase ==
    [][(/\ res'.op = "clear"
        /\ Deref(res'.val).aggr_kind = STATS_FS_NONE
        /\ FoundAt(heap, res'.src, res'.val) # 0
        /\ heap[res'.src].values_head[FoundAt(heap, res'.src, res'.val)].base_addr # NULL) =>
          \A b \in Bases : \A i \in 1..16 :
              mem'[b][i] # mem[b][i] =>
                  LET d == Deref(res'.val)
                  IN  /\ heap[res'.src].values_head[FoundAt(heap, res'.src, res'.val)].base_addr = b
                      /\ i > d.offset
                      /\ i <= d.offset + FieldWidth(d.type)]_vars

\* the emitters a call of metric_emit_int_value or metric_emit_str_value
\* passes through from e, before its last statement: after the first field,
\* after the fields, after the value and after the newline
CursorPoints(e, m) ==
    LET f == emit_fields(e, m.f0, m.f1)
        a == IF m.op = "emit_int"
             THEN Advance(f.e, snprintf(AtCursor(f.e), emit_bytes_left(f.e), m.v))
             ELSE emit_quoted_string(f.e, m.v)
        b == emit_string(a.e, <<"\n">>)
    IN  {e, f.e, a.e, b.e}
        \cup (IF m.f0 = NoStr THEN {}
              ELSE {emit_quoted_string(e, m.f0).e, emit_fields(e, m.f0, NoStr).e})

\* the cursor lies in the buffer or one past its end
CursorInBuffer(e) == e.buf >= 0 /\ e.buf <= e.size

\* the cursor as an emit call leaves it
CursorAfterCall(e) == e.size > 0 => (e.buf >= 0 /\ e.buf <= e.size - 1)

(***************************************************************************)
(* C40: during an open of a values file the cursor stays within            *)
(* orig_buf .. orig_buf + size at every point of every emit call; the      *)
(* callback starts with the cursor at orig_buf, every emit call advances   *)
(* it by the length of its row when the row is accepted (appended to the   *)
(* bytes served) and by nothing otherwise, and leaves it at most at        *)
(* size - 1; bytes_written is the offset of the cursor when the callback   *)
(* returns, and a read returns bytes of the buffer below bytes_written.    *)
(***************************************************************************)
C40_CursorInvariant ==
    [][/\ CursorAfterCall(emitter) /\ CursorAfterCall(emitter')
       /\ (filp[1].pc = "helper" /\ filp'[1].pc = "callback") => emitter'.buf = 0
       /\ IsEmit(mres') =>
             LET row == RowOf(mres')
             IN  /\ \A p \in CursorPoints(emitter, mres') : CursorInBuffer(p)
                 /\ \/ /\ emitter'.buf = emitter.buf + Len(row)
                       /\ Served(emitter') = Served(emitter) \o row
                    \/ /\ emitter'.buf = emitter.buf
                       /\ Served(emitter') = Served(emitter)
       /\ (filp[1].pc = "callback" /\ filp'[1].pc = "open") =>
             /\ filp'[1].private_data.bytes_written = emitter.buf
             /\ FileContent(filp'[1]) = Served(emitter)
       /\ mres'.op = "read" =>
             /\ mres'.ret = Len(mres'.to)
             /\ mres'.pos + mres'.ret <= filp[1].private_data.bytes_written
             /\ mres'.to = SubSeq(FileContent(filp[1]), mres'.pos + 1,
                                  mres'.pos + mres'.ret)]_vars

\* C40 witness: rows were accepted, the last call was a row that reached the
\* end of the buffer and was rolled back, and the file was then read to its
\* last byte
C40_WitnessRollback ==
    /\ IsEmit(mres)
    /\ emitter.buf > 0
    /\ Len(RowOf(mres)) >= emit_bytes_left(emitter)
    /\ SubSeq(emitter.orig_buf, emitter.buf + 1, emitter.size - 1)
           = SubSeq(RowOf(mres), 1, emit_bytes_left(emitter) - 1)
    /\ \E p \in CursorPoints(emitter, mres) : p.buf = p.size

C40_Witness ==
    /\ mres.op = "read"
    /\ mres.ret > 0
    /\ mres.pos > 0
    /\ mres.pos + mres.ret = filp[1].private_data.bytes_written
    /\ filp[1].private_data.bytes_written = ValuesBufSize - 1

\* the non-null bases of the bindings of s
LiveBases(h, s) ==
    {h[s].values_head[i].base_addr : i \in 1..Len(h[s].values_head)} \ {NULL}

\* the step is the one in which thread t accesses backing objects
IsDeref(t) == thr[t].pc \in {"simple", "deref"} /\ thr'[t].pc \notin {"simple", "deref"}

\* the source whose bindings thread t has loaded
DerefSource(t) == IF thr[t].pc = "simple" THEN thr[t].src ELSE Top(t).src

(***************************************************************************)
(* C34: under every interleaving of stats_fs_source_revoke(s) with reads   *)
(* and clears on s or on an ancestor of s, a thread accesses memory at a   *)
(* base of a binding of s only while it holds the semaphore of s for       *)
(* reading and only at a base the binding still has: no access starts      *)
(* after a revoke(s) that nulled the base has returned.  The bases of s    *)
(* change only in a thread that holds the semaphore of s for writing, and  *)
(* a semaphore never has a writer together with a reader.                  *)
(***************************************************************************)
C34_NoAccessAfterRevoke ==
    [][/\ \A t \in Threads :
             IsDeref(t) =>
                 /\ HeldMode(rwsem, t, DerefSource(t)) = "r"
                 /\ \A i \in 1..Len(thr[t].loaded) :
                        thr[t].loaded[i] \in LiveBases(heap, DerefSource(t))
       /\ \A s \in Sources :
             LiveBases(heap', s) # LiveBases(heap, s) =>
                 \E t \in Threads : HeldMode(rwsem, t, s) = "w" /\ thr[t].src = s
       /\ \A s \in Sources : rwsem[s].writer # 0 => rwsem[s].readers = {}]_vars

\* C34 witness: a read on the root is about to access the object of a
\* subordinate while a revoke of that subordinate waits for the semaphore
C34_Witness ==
    \E t, u \in Threads :
        /\ thr[t].pc = "deref"
        /\ thr[t].loaded # <<>>
        /\ Len(thr[t].stack) > 1
        /\ thr[u].pc = "called"
        /\ thr[u].op = "revoke"
        /\ thr[u].src = Top(t).src

(***************************************************************************)
(* C37: an aggregate stats_fs_source_get_value that runs concurrently with *)
(* revoke and add_values on descendants returns what an uninterrupted read *)
(* would have returned in one of the states between its call and its      *)
(* return.                                                                 *)
(***************************************************************************)
C37_AtomicSnapshot ==
    [][\A t \in Threads :
          (/\ thr[t].pc # "idle" /\ thr'[t].pc = "idle"
           /\ thr[t].op = "get_value" /\ thr[t].track) =>
              [err |-> res'.err, ret |-> res'.ret] \in thr[t].snaps]_vars

(***************************************************************************)
(* C36: on a tree, no interleaving of the calls reaches a deadlock:        *)
(* whenever a thread is inside a call, some thread can take a step.        *)
(***************************************************************************)
C36_NoDeadlock ==
    (\E t \in Threads : thr[t].pc \notin {"idle", "oops"}) =>
        ENABLED (\E t \in Threads : Step(t))

\* C36, the order: a thread that is about to take a semaphore holds only
\* semaphores of proper ancestors of its source, and a thread that is in no
\* call holds no semaphore.  The loop of
\* stats_fs_create_files_recursive_locked that stats_fs_source_add_subordinate
\* starts on sub picks a subordinate of sub without the semaphore of sub, so
\* the link it follows can be cut before it takes the child's semaphore
C36_ParentBeforeChild ==
    /\ \A t \in Threads :
           Wants(t) # NULL =>
               \A s \in HeldBy(t) : Wants(t) \in Below(Links(t), s) \ {s}
    /\ \A t \in Threads : thr[t].pc = "idle" => HeldBy(t) = {}

\* the semaphore a step takes is the one Wants names
C36_StepTakesWanted ==
    [][\A t \in Threads, s \in Sources :
          (HeldMode(rwsem, t, s) = "none" /\ HeldMode(rwsem', t, s) # "none") => s = Wants(t)]_vars

(***************************************************************************)
(* C35: every step of a call reads the binding list, the subordinate list, *)
(* the label list and the directory of a source with the semaphore of      *)
(* that source held, and writes them with it held for writing.             *)
(***************************************************************************)
C35_AccessUnderSemaphore ==
    [][\A t \in Threads :
          thr'[t] # thr[t] =>
              \A a \in Footprint(t) : a.mode = "w" \/ (~a.write /\ a.mode = "r")]_vars

\* the accesses that stats_fs_source_add_subordinate makes to sub, and the
\* test of a subordinate's directory in stats_fs_create_files_recursive_locked
UnlockedSites ==
    {"copy labels to sub", "create_files of sub", "child directory"}

\* C35 for every other access, and for the loop of
\* stats_fs_create_files_recursive_locked when its caller took the semaphore
C35_AccessUnderSemaphoreElsewhere ==
    [][\A t \in Threads :
          thr'[t] # thr[t] =>
              \A a \in Footprint(t) :
                  \/ a.site \in UnlockedSites
                  \/ a.site = "subordinates" /\ thr[t].op = "add_subordinate"
                  \/ a.mode = "w" \/ (~a.write /\ a.mode = "r")]_vars

=============================================================================
